---- MODULE Spec2Model ----
(***************************************************************************)
(* Verification model of the Office 365 scanner's synchronisation core:    *)
(*   - EventRepository.upsertEvent over DatabaseService.transaction        *)
(*     (SQLite: one shared connection; PostgreSQL: one pooled client per   *)
(*     transaction),                                                       *)
(*   - ConcurrencyService.runConcurrent over a p-limit limiter,            *)
(*   - GraphApiService.fetchAllWithPagination, get and handleError,        *)
(*   - GraphApiService.fetchWithRetry,                                     *)
(*   - EventScannerService.scanUserEvents,                                 *)
(*   - FileScannerService.scanUserFiles and scanFolderRecursively.         *)
(* Each part has its own specification (SpecDb, SpecConc, SpecPage,        *)
(* SpecRetry, SpecScan, SpecCrawl); the variables of the parts a           *)
(* specification does not exercise stay at their initial values.           *)
(***************************************************************************)
EXTENDS Integers, Sequences, FiniteSets, TLC

VARIABLES
    \* ---- storage (database.service.js, EventRepository) ----
    dbType,           \* dbConfig.type: "sqlite" or "postgresql"
    calendar_events,  \* committed table: set of event rows, keyed by id
    event_attendees,  \* committed table: sequence of attendee rows
    txnOpen,          \* connection -> a transaction is open on it
    txnLog,           \* connection -> statements executed in the open transaction
    checkedOut,       \* pool clients handed out by getClient and not yet released
    pc,               \* call -> position of the upsertEvent invocation
    arg,              \* call -> [eventData, userId] of the invocation
    attIdx,           \* call -> index of the next attendee to insert
    pre,              \* call -> committed rows of the event when the call started
    tx,               \* call -> what transaction() has done so far
    ncalls,           \* number of upsertEvent invocations started
    tasks,            \* the scan tasks (call slots) that store events
    \* ---- dispatcher (concurrency.service.js) ----
    concurrentRequests, \* this.concurrentRequests, the limit of this.limiter
    items,            \* items of the current runConcurrent call
    rcState,          \* "idle", "running", "resolved" or "rejected"
    queue,            \* p-limit queue: indices waiting for a slot
    active,           \* indices whose limiter function is running (activeCount)
    invoked,          \* index -> number of taskFunction invocations
    settled,          \* index -> outcome of the task, or Pending
    outcome,          \* index -> record the limiter promise resolved to, or Pending
    completed,        \* the closure counter `completed`
    progress,         \* calls made to onProgress, in order
    doneOrder,        \* indices in the order their tasks settled
    peak,             \* largest number of simultaneously in-flight tasks seen
    results,          \* value runConcurrent resolved to
    \* ---- paginated fetcher (graph-api.service.js) ----
    remote,           \* the remote collection: endpoint -> page
    fpc,              \* position of the fetchAllWithPagination call
    startEndpoint,    \* the endpoint argument
    currentEndpoint,  \* local currentEndpoint
    allData,          \* local allData
    pageCount,        \* local pageCount
    requested,        \* endpoints requested so far, in order
    delays,           \* delays awaited so far
    fetched,          \* what the call resolved or rejected with
    accessToken,      \* the accessToken argument
    options,          \* the third argument the caller passes
    getLog,           \* the GET requests sent, in order, with their credential
    responses,        \* the responses the call received, in order
    onPageCalls,      \* the pages handed to options.onPage by the call
    providerCalls,    \* number of invocations of the token provider
    currentToken,     \* the credential the token provider resolves to now
    \* ---- retry policy (graph-api.service.js, fetchWithRetry) ----
    rpc,              \* position of the fetchWithRetry call
    retryCount,       \* the retryCount argument of the current invocation
    attempts,         \* number of fetchFunction invocations
    waits,            \* the delays awaited, in milliseconds, in order
    thrown,           \* what the requests behind the failed attempts got
    rresult,          \* what the outermost call resolved or rejected with
    \* ---- event scan (event-scanner.service.js, scanUserEvents) ----
    spc,              \* position of the scanUserEvents call
    scanEndpoint,     \* the endpoint built for the user's calendar
    scanResult,       \* what the call resolved or rejected with
    \* ---- file crawl (file-scanner.service.js, scanUserFiles) ----
    tree,             \* the owner's drive: item -> kind and parent folder
    cpc,              \* position of the scanUserFiles call
    stack,            \* the scanFolderRecursively invocations in progress
    files,            \* local allFiles of scanUserFiles
    pidx,             \* index of the next file the storing loop takes
    upsertLog,        \* the upsertFile calls made, in order, with their outcome
    listed,           \* the folder listings that settled, in order
    crawlResult,      \* what scanUserFiles resolved or rejected with
    \* ---- scans of all users (scanAllUserFiles, scanAllUserEvents) ----
    apc,              \* position of the scanAllUser... call
    scanKind,         \* "files": scanAllUserFiles, "events": scanAllUserEvents
    users,            \* what getAllUsers resolved to
    returning,        \* per user: what the per-user scan settled with
    totalScanned,     \* local totalFiles, or totalEvents
    totalFailures,    \* local totalFailures of scanAllUserEvents
    allResult,        \* what the call resolved or rejected with
    \* ---- tokens of one session (AuthService, part_005) ----
    tokenStore,       \* tokenStore.get(sessionId), or no entry
    refreshPromises,  \* refreshPromises.get(sessionId): a refresh, or none
    refreshes,        \* the refreshAccessToken requests started, in order
    calls,            \* what the getValidAccessToken calls returned, in order
    removed,          \* removeToken(sessionId) was called: the session is over
    issued,           \* number of access tokens the token endpoint issued
    \* ---- the limiters of the dispatcher (concurrency.service.js) ----
    limiters,         \* the pLimit instances made so far; the last is this.limiter
    batches           \* number of runConcurrent calls made

dbVars == <<dbType, calendar_events, event_attendees, txnOpen, txnLog,
            checkedOut, pc, arg, attIdx, pre, tx, ncalls, tasks>>
concVars == <<concurrentRequests, items, rcState, queue, active, invoked,
              settled, outcome, completed, progress, doneOrder, peak, results>>
pageVars == <<remote, fpc, startEndpoint, currentEndpoint, allData, pageCount,
              requested, delays, fetched, accessToken, options, getLog,
              responses, onPageCalls, providerCalls, currentToken>>
retryVars == <<rpc, retryCount, attempts, waits, thrown, rresult>>
scanVars == <<spc, scanEndpoint, scanResult>>
crawlVars == <<tree, cpc, stack, files, pidx, upsertLog, listed, crawlResult>>
allVars == <<apc, scanKind, users, returning, totalScanned, totalFailures,
             allResult>>
authVars == <<tokenStore, refreshPromises, refreshes, calls, removed, issued>>
limitVars == <<limiters, batches>>
vars == <<dbVars, concVars, pageVars, retryVars, scanVars, crawlVars, allVars,
          authVars, limitVars>>

----------------------------------------------------------------------------
(* Values shared by the parts *)

Undefined == "undefined"
Null == "null"
Pending == "pending"
NoErr == "no error"

RECURSIVE Count(_, _)
\* number of occurrences of x in the sequence s
Count(x, s) == IF s = <<>> THEN 0
               ELSE (IF Head(s) = x THEN 1 ELSE 0) + Count(x, Tail(s))

Range(s) == { s[i] : i \in 1..Len(s) }

\* the two sequences hold the same elements with the same multiplicities
SameMultiset(s, t) ==
    /\ Len(s) = Len(t)
    /\ \A x \in Range(s) \cup Range(t) : Count(x, s) = Count(x, t)

\* all sequences over S of length at most n
SeqsUpTo(S, n) == UNION { [1..m -> S] : m \in 0..n }

----------------------------------------------------------------------------
(* Storage: bounds and inputs *)

MaxAttendees == 2
MaxCalls == 2

Calls == {"c1", "c2"}
EventIds == {"E1", "E2"}
Users == {"u1", "u2"}
Subjects == {"s1", "s2"}
SqliteConn == "db"
Conns == Calls \cup {SqliteConn}

\* attendees as Microsoft Graph delivers them (emailAddress.address,
\* emailAddress.name, status.response); the second one lacks name and status
AttendeeA == [address |-> "a1@x", name |-> "A One", response |-> "accepted"]
AttendeeB == [address |-> "a2@x", name |-> Undefined, response |-> ""]
AttendeeObjs == {AttendeeA, AttendeeB}

\* eventData.attendees: absent (defined = FALSE), empty or a list
NoAttendees == [defined |-> FALSE, list |-> <<>>]
AttendeeLists ==
    {NoAttendees} \cup
    { [defined |-> TRUE, list |-> l] : l \in SeqsUpTo(AttendeeObjs, MaxAttendees) }

EventData == [id : EventIds, subject : Subjects, attendees : AttendeeLists]

\* Each call slot is the scan task of one user (scanUserEvents stores the
\* events of one mailbox one after the other), so calls in flight together
\* belong to different users and carry different event ids.  A task that
\* runs alone draws its events from all of EventData for its event id; when
\* two tasks run side by side the first stores events with one or two
\* attendees and the second one event with one attendee, which keeps the
\* interleavings enumerable.
OwnerOf(c) == IF c = "c1" THEN "u1" ELSE "u2"
Inputs(c) ==
    IF tasks = {"c1"}
    THEN { ed \in EventData : ed.id = "E1" }
    ELSE IF c = "c1"
    THEN { ed \in EventData :
             /\ ed.id = "E1"
             /\ ed.attendees.defined
             /\ ed.attendees.list \in {<<AttendeeA>>, <<AttendeeB, AttendeeA>>} }
    ELSE { ed \in EventData :
             /\ ed.id = "E2"
             /\ ed.subject = "s1"
             /\ ed.attendees.defined
             /\ ed.attendees.list = <<AttendeeA>> }

----------------------------------------------------------------------------
(* Storage: the statements of EventRepository *)

\* `value || null`: every falsy value is stored as NULL
OrNull(v) == IF v \in {Undefined, Null, ""} THEN Null ELSE v

\* the values bound to INSERT INTO event_attendees
AttendeeRow(eventId, a) ==
    [event_id |-> eventId,
     email |-> OrNull(a.address),
     name |-> OrNull(a.name),
     response_status |-> OrNull(a.response)]

\* INSERT INTO calendar_events ... ON CONFLICT (id) DO UPDATE SET subject = ...
\* (user_id is written by the insert only, never by the update)
ParentUpsert(ed, userId) ==
    [op |-> "upsert", id |-> ed.id, user_id |-> userId, subject |-> ed.subject]

\* variant: the DELETE matches no row
AttendeeDeleteNothing(eventId) == [op |-> "delete", event_id |-> Null]

\* DELETE FROM event_attendees WHERE event_id = $1
AttendeeDelete(eventId) == [op |-> "delete", event_id |-> eventId]

\* INSERT INTO event_attendees (event_id, email, name, response_status)
AttendeeInsert(eventId, a) == [op |-> "insert", row |-> AttendeeRow(eventId, a)]

\* if (eventData.attendees && eventData.attendees.length > 0)
HasAttendees(ed) ==
    /\ ed.attendees.defined
    /\ Len(ed.attendees.list) > 0

\* the step of upsertEventInTransaction that follows the parent insert
AfterParent(ed) == IF HasAttendees(ed) THEN "delete" ELSE "commit"

\* effect of one statement on the tables db = [ce, ea]
ApplyOp(op, db) ==
    CASE op.op = "upsert" ->
           [db EXCEPT !.ce =
               IF \E r \in @ : r.id = op.id
               THEN { IF r.id = op.id THEN [r EXCEPT !.subject = op.subject] ELSE r
                      : r \in @ }
               ELSE @ \cup {[id |-> op.id, user_id |-> op.user_id,
                              subject |-> op.subject]}]
      [] op.op = "delete" ->
           [db EXCEPT !.ea = SelectSeq(@, LAMBDA r : r.event_id # op.event_id)]
      [] op.op = "insert" ->
           [db EXCEPT !.ea = Append(@, op.row)]

RECURSIVE ApplyLog(_, _)
ApplyLog(log, db) ==
    IF log = <<>> THEN db ELSE ApplyLog(Tail(log), ApplyOp(Head(log), db))

Committed == [ce |-> calendar_events, ea |-> event_attendees]

\* the attendee rows of one event in the tables db
AttendeesOf(db, e) == SelectSeq(db.ea, LAMBDA r : r.event_id = e)

\* what getEventById(e) reads from the tables db
StoredEvent(db, e) ==
    [parent |-> { r \in db.ce : r.id = e }, attendees |-> AttendeesOf(db, e)]

\* getEventById(e) returns null
Absent(db, e) == StoredEvent(db, e) = [parent |-> {}, attendees |-> <<>>]

----------------------------------------------------------------------------
(* Storage: DatabaseService.transaction *)

\* the connection a call's statements run on: the single better-sqlite3
\* handle (this.db), or the client that pool.connect() handed to this call
Conn(c) == IF dbType = "sqlite" THEN SqliteConn ELSE c

\* tables after COMMIT on a connection: the statements of its transaction apply
CommitResult(conn) == ApplyLog(txnLog[conn], Committed)

\* variant: the catch block keeps what the transaction wrote
RollbackKeepsWrites(conn) == ApplyLog(txnLog[conn], Committed)

\* tables after ROLLBACK on a connection: the statements are discarded
RollbackResult(conn) == Committed

\* where transaction() goes once callback(client) has resolved
OnResolved == "commit"

\* where transaction() goes once something inside its try block has thrown
OnThrown == "catch"

\* variant: the catch block throws an error of its own
RethrownWrapped(error) == "transaction failed"

\* the error transaction() rethrows after ROLLBACK has run
Rethrown(error) == error

\* fn: the callback is "none" (not called), "running", "resolved" or "threw";
\* fnErr: what it threw; commit / rollback: "none" (not issued), "ok" or
\* "failed"; caught: the error that entered the catch block; outcome, err: how
\* the promise of transaction() settled
NoTx == [fn |-> "none", fnErr |-> NoErr, commit |-> "none", rollback |-> "none",
         caught |-> NoErr, outcome |-> Pending, err |-> NoErr]

NoArg == [eventData |-> [id |-> Null, subject |-> Null, attendees |-> NoAttendees],
          userId |-> Null]

NoSnapshot == [parent |-> {}, attendees |-> <<>>]

DbInit ==
    /\ dbType \in {"sqlite", "postgresql"}
    /\ calendar_events = {}
    /\ event_attendees = <<>>
    /\ txnOpen = [n \in Conns |-> FALSE]
    /\ txnLog = [n \in Conns |-> <<>>]
    /\ checkedOut = {}
    /\ pc = [c \in Calls |-> "idle"]
    /\ arg = [c \in Calls |-> NoArg]
    /\ attIdx = [c \in Calls |-> 0]
    /\ pre = [c \in Calls |-> NoSnapshot]
    /\ tx = [c \in Calls |-> NoTx]
    /\ ncalls = 0
    /\ tasks \in {{"c1"}, Calls}

----------------------------------------------------------------------------
(* Storage: the steps of one upsertEvent invocation.  Every `await` of the *)
(* code is a step boundary; ok = FALSE is the statement throwing.          *)

otherThanDb == <<concVars, pageVars, retryVars, scanVars, crawlVars,
                 allVars, authVars, limitVars>>

\* variant: upsertEvent runs its statements without a transaction
ExecAutocommit(conn, op) ==
    /\ calendar_events' = ApplyOp(op, Committed).ce
    /\ event_attendees' = ApplyOp(op, Committed).ea
    /\ UNCHANGED txnLog

\* client.query(statement): inside BEGIN..COMMIT the statement joins the
\* connection's transaction, otherwise it commits on its own
Exec(conn, op) ==
    IF txnOpen[conn]
    THEN /\ txnLog' = [txnLog EXCEPT ![conn] = Append(@, op)]
         /\ UNCHANGED <<calendar_events, event_attendees>>
    ELSE /\ calendar_events' = ApplyOp(op, Committed).ce
         /\ event_attendees' = ApplyOp(op, Committed).ea
         /\ UNCHANGED txnLog

\* something inside the try block of transaction() threw `error`
Throw(c, error, byFn) ==
    /\ pc' = [pc EXCEPT ![c] = OnThrown]
    /\ tx' = [tx EXCEPT ![c].caught = error,
                        ![c].fn = IF byFn THEN "threw" ELSE @,
                        ![c].fnErr = IF byFn THEN error ELSE @]

\* the promise of upsertEvent settles
Settle(c, how, error) ==
    /\ pc' = [pc EXCEPT ![c] = "done"]
    /\ tx' = [tx EXCEPT ![c].outcome = how, ![c].err = error]

\* eventRepository.upsertEvent(eventData, userId) is called
UpsertEvent(c, ed, u) ==
    /\ pc[c] = "idle"
    /\ c \in tasks
    /\ ncalls < MaxCalls
    /\ ed \in Inputs(c)
    /\ u = OwnerOf(c)
    /\ ncalls' = ncalls + 1
    /\ arg' = [arg EXCEPT ![c] = [eventData |-> ed, userId |-> u]]
    /\ pre' = [pre EXCEPT ![c] = StoredEvent(Committed, ed.id)]
    /\ attIdx' = [attIdx EXCEPT ![c] = 0]
    /\ tx' = [tx EXCEPT ![c] = NoTx]
    /\ pc' = [pc EXCEPT ![c] = IF dbType = "sqlite" THEN "begin" ELSE "getClient"]
    /\ UNCHANGED <<dbType, tasks, calendar_events, event_attendees, txnOpen, txnLog,
                   checkedOut, otherThanDb>>

\* PostgreSQL: const client = await this.getClient()   (outside the try)
GetClient(c, ok) ==
    /\ pc[c] = "getClient"
    /\ IF ok
       THEN /\ checkedOut' = checkedOut \cup {c}
            /\ pc' = [pc EXCEPT ![c] = "begin"]
            /\ UNCHANGED tx
       ELSE /\ Settle(c, "rejected", "connect failed")
            /\ UNCHANGED checkedOut
    /\ UNCHANGED <<dbType, tasks, calendar_events, event_attendees, txnOpen, txnLog,
                   arg, attIdx, pre, ncalls, otherThanDb>>

\* SQLite: begin.run(), outside the try; it throws "cannot start a
\* transaction within a transaction" when the shared connection has one open.
\* PostgreSQL: await client.query('BEGIN'), inside the try.
Begin(c, ok) ==
    /\ pc[c] = "begin"
    /\ IF dbType = "sqlite"
       THEN /\ ok
            /\ IF txnOpen[SqliteConn]
               THEN /\ Settle(c, "rejected", "nested transaction")
                    /\ UNCHANGED txnOpen
               ELSE /\ txnOpen' = [txnOpen EXCEPT ![SqliteConn] = TRUE]
                    /\ pc' = [pc EXCEPT ![c] = "parent"]
                    /\ tx' = [tx EXCEPT ![c].fn = "running"]
       ELSE IF ok
            THEN /\ txnOpen' = [txnOpen EXCEPT ![c] = TRUE]
                 /\ pc' = [pc EXCEPT ![c] = "parent"]
                 /\ tx' = [tx EXCEPT ![c].fn = "running"]
            ELSE /\ Throw(c, "BEGIN failed", FALSE)
                 /\ UNCHANGED txnOpen
    /\ UNCHANGED <<dbType, tasks, calendar_events, event_attendees, txnLog, checkedOut,
                   arg, attIdx, pre, ncalls, otherThanDb>>

\* upsertEventInTransaction: await client.query(INSERT ... ON CONFLICT ...)
InsertParent(c, ok) ==
    /\ pc[c] = "parent"
    /\ IF ok
       THEN /\ Exec(Conn(c), ParentUpsert(arg[c].eventData, arg[c].userId))
            /\ pc' = [pc EXCEPT ![c] =
                        IF AfterParent(arg[c].eventData) = "commit"
                        THEN OnResolved ELSE "delete"]
            /\ tx' = [tx EXCEPT ![c].fn =
                        IF AfterParent(arg[c].eventData) = "commit"
                        THEN "resolved" ELSE @]
       ELSE /\ Throw(c, "parent insert failed", TRUE)
            /\ UNCHANGED <<calendar_events, event_attendees, txnLog>>
    /\ UNCHANGED <<dbType, tasks, txnOpen, checkedOut, arg, attIdx, pre, ncalls,
                   otherThanDb>>

\* upsertAttendeesInTransaction: await client.query(DELETE FROM event_attendees ...)
DeleteAttendees(c, ok) ==
    /\ pc[c] = "delete"
    /\ IF ok
       THEN /\ Exec(Conn(c), AttendeeDelete(arg[c].eventData.id))
            /\ pc' = [pc EXCEPT ![c] = "insert"]
            /\ attIdx' = [attIdx EXCEPT ![c] = 1]
            /\ UNCHANGED tx
       ELSE /\ Throw(c, "attendee delete failed", TRUE)
            /\ UNCHANGED <<calendar_events, event_attendees, txnLog, attIdx>>
    /\ UNCHANGED <<dbType, tasks, txnOpen, checkedOut, arg, pre, ncalls, otherThanDb>>

\* upsertAttendeesInTransaction: one turn of `for (const attendee of attendees)`
InsertAttendee(c, ok) ==
    /\ pc[c] = "insert"
    /\ LET ed == arg[c].eventData
           last == attIdx[c] = Len(ed.attendees.list)
       IN IF ok
          THEN /\ Exec(Conn(c), AttendeeInsert(ed.id, ed.attendees.list[attIdx[c]]))
               /\ attIdx' = [attIdx EXCEPT ![c] = @ + 1]
               /\ pc' = [pc EXCEPT ![c] = IF last THEN OnResolved ELSE @]
               /\ tx' = [tx EXCEPT ![c].fn = IF last THEN "resolved" ELSE @]
          ELSE /\ Throw(c, "attendee insert failed", TRUE)
               /\ UNCHANGED <<calendar_events, event_attendees, txnLog, attIdx>>
    /\ UNCHANGED <<dbType, tasks, txnOpen, checkedOut, arg, pre, ncalls, otherThanDb>>

\* commit.run() / await client.query('COMMIT'), then (finally) client.release()
\* and the result is returned; a failing COMMIT is caught like any other throw
Commit(c, ok) ==
    /\ pc[c] = "commit"
    /\ IF ok
       THEN /\ calendar_events' = CommitResult(Conn(c)).ce
            /\ event_attendees' = CommitResult(Conn(c)).ea
            /\ txnOpen' = [txnOpen EXCEPT ![Conn(c)] = FALSE]
            /\ txnLog' = [txnLog EXCEPT ![Conn(c)] = <<>>]
            /\ checkedOut' = checkedOut \ {c}
            /\ pc' = [pc EXCEPT ![c] = "done"]
            /\ tx' = [tx EXCEPT ![c].commit = "ok", ![c].outcome = "resolved"]
       ELSE /\ pc' = [pc EXCEPT ![c] = OnThrown]
            /\ tx' = [tx EXCEPT ![c].commit = "failed", ![c].caught = "COMMIT failed"]
            /\ UNCHANGED <<calendar_events, event_attendees, txnOpen, txnLog,
                           checkedOut>>
    /\ UNCHANGED <<dbType, tasks, arg, attIdx, pre, ncalls, otherThanDb>>

\* catch (error): rollback.run() / await client.query('ROLLBACK'); throw error;
\* finally client.release().  A ROLLBACK that itself throws (connection lost,
\* no transaction left to roll back) replaces the error; the engine has
\* abandoned the transaction in that case as well.
Rollback(c, ok) ==
    /\ pc[c] = "catch"
    /\ calendar_events' = RollbackResult(Conn(c)).ce
    /\ event_attendees' = RollbackResult(Conn(c)).ea
    /\ txnOpen' = [txnOpen EXCEPT ![Conn(c)] = FALSE]
    /\ txnLog' = [txnLog EXCEPT ![Conn(c)] = <<>>]
    /\ checkedOut' = checkedOut \ {c}
    /\ pc' = [pc EXCEPT ![c] = "done"]
    /\ tx' = [tx EXCEPT ![c].rollback = IF ok THEN "ok" ELSE "failed",
                        ![c].outcome = "rejected",
                        ![c].err = IF ok THEN Rethrown(tx[c].caught)
                                         ELSE "ROLLBACK failed"]
    /\ UNCHANGED <<dbType, tasks, arg, attIdx, pre, ncalls, otherThanDb>>

\* the caller has taken the settled promise; the call slot is free again
Return(c) ==
    /\ pc[c] = "done"
    /\ pc' = [pc EXCEPT ![c] = "idle"]
    /\ arg' = [arg EXCEPT ![c] = NoArg]
    /\ attIdx' = [attIdx EXCEPT ![c] = 0]
    /\ pre' = [pre EXCEPT ![c] = NoSnapshot]
    /\ tx' = [tx EXCEPT ![c] = NoTx]
    /\ UNCHANGED <<dbType, tasks, calendar_events, event_attendees, txnOpen, txnLog,
                   checkedOut, ncalls, otherThanDb>>

----------------------------------------------------------------------------
(* Dispatcher: ConcurrencyService.runConcurrent over this.limiter *)

MaxLimit == 2
MaxItems == 3

ItemSet == {"A", "B"}
TaskValues == {"v1", "v2"}
Indices == 1..MaxItems

NotSettled == [state |-> Pending, value |-> Undefined]
NoPromise == [kind |-> Pending, success |-> FALSE, data |-> Undefined,
              error |-> Undefined, item |-> Undefined]

\* return { success: true, data: result, item }
SuccessRecord(item, result) ==
    [kind |-> "fulfilled", success |-> TRUE, data |-> result,
     error |-> Undefined, item |-> item]

\* return { success: false, error: error.message, item }
FailureRecord(item, message) ==
    [kind |-> "fulfilled", success |-> FALSE, data |-> Undefined,
     error |-> message, item |-> item]

\* variant: the limiter function has no catch block
WrapperWithoutCatch(item, ok, value) ==
    IF ok THEN SuccessRecord(item, value)
    ELSE [kind |-> "rejected", success |-> FALSE, data |-> Undefined,
          error |-> value, item |-> item]

\* what the function handed to this.limiter settles with once the task has
\* settled: its try/catch turns a throwing task into a failure record
Wrapper(item, ok, value) ==
    IF ok THEN SuccessRecord(item, value) ELSE FailureRecord(item, value)

\* variant: every submitted function starts at once
StartableUnbounded(n, running, concurrency) == n

\* p-limit: the number of queued functions that start when `n` functions are
\* submitted to a limiter of the given concurrency that runs `running` of them
Startable(n, running, concurrency) ==
    IF n < concurrency - running THEN n
    ELSE IF concurrency > running THEN concurrency - running ELSE 0

\* variant: the values in the order in which the promises settled
PromiseAllByCompletion(promises, n) == [j \in 1..n |-> promises[doneOrder[j]]]

\* await Promise.all(promises): the values in the order of the input promises
PromiseAll(promises, n) == [i \in 1..n |-> promises[i]]

\* the record without the bookkeeping of the promise
AsRecord(p) == [success |-> p.success, data |-> p.data, error |-> p.error,
                item |-> p.item]

\* variant: the slot of a task that threw is not given back
RunningAfterSettleKeptOnThrow(ok, running) ==
    IF ok THEN running - 1 ELSE running

\* the limiter gives the slot back when the function it ran has settled,
\* resolved or rejected: one function less is running
RunningAfterSettle(ok, running) == running - 1

\* variant: progress is reported for the tasks that returned only
ReportProgressOnSuccess(log, ok, completedCount, total) ==
    IF ok THEN Append(log, <<completedCount, total>>) ELSE log

\* if (onProgress) onProgress(completed, items.length), in the try block
\* and in the catch block alike; log holds the calls made so far
ReportProgress(log, ok, completedCount, total) ==
    Append(log, <<completedCount, total>>)

\* variant: the call resolves with the first promise that resolves
SomeFulfilled(promises, n) ==
    n = 0 \/ \E i \in 1..n : promises[i].kind = "fulfilled"

\* Promise.all resolves once every input promise has resolved
AllFulfilled(promises, n) == \A i \in 1..n : promises[i].kind = "fulfilled"

\* constructor: this.concurrentRequests = oauthConfig.concurrentRequests;
\* this.limiter = pLimit(this.concurrentRequests)
ConcInit ==
    /\ concurrentRequests \in 1..MaxLimit
    /\ items = <<>>
    /\ rcState = "idle"
    /\ queue = <<>>
    /\ active = {}
    /\ invoked = [i \in Indices |-> 0]
    /\ settled = [i \in Indices |-> NotSettled]
    /\ outcome = [i \in Indices |-> NoPromise]
    /\ completed = 0
    /\ progress = <<>>
    /\ doneOrder = <<>>
    /\ peak = 0
    /\ results = <<>>

otherThanConc == <<dbVars, pageVars, retryVars, scanVars, crawlVars,
                   authVars, limitVars>>

\* runConcurrent(items, taskFunction, {onProgress}) up to `await Promise.all`:
\* items.map hands one function per item to the limiter, which starts the
\* first `concurrentRequests` of them and queues the rest in input order
RunConcurrent(its) ==
    /\ rcState = "idle"
    /\ LET n == Len(its)
           m == Startable(n, Cardinality(active), concurrentRequests)
       IN /\ items' = its
          /\ rcState' = "running"
          /\ active' = 1..m
          /\ queue' = [j \in 1..(n - m) |-> m + j]
          /\ invoked' = [i \in Indices |-> IF i <= m THEN 1 ELSE 0]
          /\ peak' = m
    /\ completed' = 0
    /\ settled' = [i \in Indices |-> NotSettled]
    /\ outcome' = [i \in Indices |-> NoPromise]
    /\ progress' = <<>>
    /\ doneOrder' = <<>>
    /\ results' = <<>>
    /\ UNCHANGED <<concurrentRequests, otherThanConc>>

\* the task of an in-flight item settles (ok: it returns `value`; otherwise it
\* throws an Error whose message is `value`).  The limiter function counts it,
\* reports progress and settles its own promise; p-limit then frees the slot
\* and starts the head of the queue.
TaskSettles(i, ok, value) ==
    /\ rcState = "running"
    /\ i \in active
    /\ settled' = [settled EXCEPT ![i] =
                      [state |-> IF ok THEN "returned" ELSE "threw", value |-> value]]
    /\ completed' = completed + 1
    /\ progress' = ReportProgress(progress, ok, completed + 1, Len(items))
    /\ outcome' = [outcome EXCEPT ![i] = Wrapper(items[i], ok, value)]
    /\ doneOrder' = Append(doneOrder, i)
    /\ LET m == Startable(Len(queue),
                         RunningAfterSettle(ok, Cardinality(active)),
                         concurrentRequests)
           started == { queue[j] : j \in 1..m }
       IN /\ active' = (active \ {i}) \cup started
          /\ queue' = SubSeq(queue, m + 1, Len(queue))
          /\ invoked' = [j \in Indices |-> IF j \in started THEN invoked[j] + 1
                                                            ELSE invoked[j]]
          /\ peak' = IF Cardinality((active \ {i}) \cup started) > peak
                     THEN Cardinality((active \ {i}) \cup started) ELSE peak
    /\ UNCHANGED <<concurrentRequests, items, rcState, results, otherThanConc>>

\* Promise.all(promises) settles: it rejects as soon as one promise has
\* rejected and resolves once every promise has resolved
PromiseAllSettles ==
    /\ rcState = "running"
    /\ LET n == Len(items)
       IN IF \E i \in 1..n : outcome[i].kind = "rejected"
          THEN /\ rcState' = "rejected"
               /\ UNCHANGED results
          ELSE /\ AllFulfilled(outcome, n)
               /\ rcState' = "resolved"
               /\ results' = [i \in 1..n |-> AsRecord(PromiseAll(outcome, n)[i])]
    /\ UNCHANGED <<concurrentRequests, items, queue, active, invoked, settled,
                   outcome, completed, progress, doneOrder, peak, otherThanConc>>

\* the caller has taken the results; the service is ready for the next call
RunReturns ==
    /\ rcState \in {"resolved", "rejected"}
    /\ rcState' = "idle"
    /\ UNCHANGED <<concurrentRequests, items, queue, active, invoked, settled,
                   outcome, completed, progress, doneOrder, peak, results,
                   otherThanConc>>

----------------------------------------------------------------------------
(* Requests: GraphApiService.get and handleError *)

\* largest number of seconds a retry-after header names
MaxRetryAfter == 2

TransientStatusCodes == {408, 500, 502, 503, 504}
Statuses == {400, 401, 403, 404, 429} \cup TransientStatusCodes

\* error.response.headers['retry-after']: missing, a number of seconds, or
\* an HTTP date
NoHeader == [kind |-> "missing", seconds |-> 0]
DateHeader == [kind |-> "date", seconds |-> 0]
SecondsHeader(n) == [kind |-> "seconds", seconds |-> n]
RetryAfterHeaders ==
    {NoHeader, DateHeader} \cup { SecondsHeader(n) : n \in 0..MaxRetryAfter }

\* what axios.get rejects with: an error that has a response (status and
\* headers) or one that has none (the request never got an answer)
NoResponse == [hasResponse |-> FALSE, status |-> 0, header |-> NoHeader]
HttpFailure(status, header) ==
    [hasResponse |-> TRUE, status |-> status, header |-> header]
Failures ==
    {NoResponse}
    \cup { HttpFailure(429, h) : h \in RetryAfterHeaders }
    \cup { HttpFailure(st, NoHeader) : st \in Statuses \ {429} }

\* the n-th failure of a call carries its own message
WithMessage(failure, n) ==
    [hasResponse |-> failure.hasResponse, status |-> failure.status,
     header |-> failure.header, message |-> n]

\* JavaScript values of the retryAfter property
JsUndefined == [kind |-> "undefined", n |-> 0]
JsNaN == [kind |-> "nan", n |-> 0]
JsNumber(n) == [kind |-> "number", n |-> n]
JsString(header) == [kind |-> "string", n |-> header.seconds]

\* truthiness as `||` and `?:` see it: undefined, NaN and 0 are falsy, a
\* header string is truthy
Truthy(v) == v.kind = "string" \/ (v.kind = "number" /\ v.n # 0)

\* parseInt(header) * 1000
ParseIntTimes1000(header) ==
    IF header.kind = "seconds" THEN JsNumber(header.seconds * 1000) ELSE JsNaN

\* variant: an error without response gets no status code
AppErrorWithoutStatus(message) ==
    [statusCode |-> 0, retryAfter |-> JsUndefined, message |-> message]

\* new AppError(error.message): statusCode takes its default, 500
AppErrorOfMessage(message) ==
    [statusCode |-> 500, retryAfter |-> JsUndefined, message |-> message]

\* handleError: the error `get` throws for what axios rejected with
HandleError(failure) ==
    IF failure.hasResponse
    THEN IF failure.status = 429
         THEN [statusCode |-> 429,
               retryAfter |-> IF failure.header.kind # "missing"
                              THEN ParseIntTimes1000(failure.header)
                              ELSE JsNumber(60000),
               message |-> failure.message]
         ELSE [statusCode |-> failure.status,
               retryAfter |-> IF failure.header.kind # "missing"
                              THEN JsString(failure.header)
                              ELSE JsUndefined,
               message |-> failure.message]
    ELSE AppErrorOfMessage(failure.message)

\* no error
NoAppError == [statusCode |-> 0, retryAfter |-> JsUndefined, message |-> 0]

----------------------------------------------------------------------------
(* Paginated fetcher: GraphApiService.fetchAllWithPagination *)

MaxPages == 3
MaxPageItems == 2

\* endpoints (the path and the cursors the remote hands out); NoLink stands
\* for a response without '@odata.nextLink' (or with a falsy one)
Endpoints == 1..MaxPages
NoLink == 0

\* the items of one page: n items of the page's own (owner = the endpoint),
\* or n items that any page may hold as well (owner = NoLink), so that two
\* pages can deliver the same items
PageValue(owner, n) == [j \in 1..n |-> <<owner, j>>]

\* the `value` of the response body at endpoint e: missing, or a list of
\* up to MaxPageItems items of its own, or a full page of items that other
\* pages hold too
PageBodies(e) ==
    {[hasValue |-> FALSE, value |-> <<>>]} \cup
    { [hasValue |-> TRUE, value |-> PageValue(e, n)] : n \in 0..MaxPageItems }
    \cup {[hasValue |-> TRUE, value |-> PageValue(NoLink, MaxPageItems)]}

\* the cursors of the collection: the cursor handed out with a page leads to
\* a later page, or is absent
CursorMaps ==
    { l \in [Endpoints -> {NoLink} \cup Endpoints] :
        \A e \in Endpoints : l[e] = NoLink \/ l[e] > e }

EmptyPage == [hasValue |-> FALSE, value |-> <<>>, nextLink |-> NoLink]

\* variant: the cursor of a response is not followed
NextEndpointNone(response) == NoLink

\* response['@odata.nextLink'] || null
NextEndpoint(response) == response.nextLink

\* variant: the page's items are put in front of the collected ones
PushPageInFront(data, response) ==
    IF response.hasValue THEN response.value \o data ELSE data

\* if (response.value) allData.push(...response.value)
PushPage(data, response) ==
    IF response.hasValue THEN data \o response.value ELSE data

NoFetch == [state |-> "none", data |-> <<>>, error |-> NoAppError,
            cause |-> WithMessage(NoResponse, 0)]

\* the accessToken argument: callers pass a token string or a function that
\* resolves to the current token (tokenProvider)
Tokens == {"t1", "t2"}
NoToken == [kind |-> "none", text |-> ""]
StringToken(t) == [kind |-> "string", text |-> t]
TokenProvider == [kind |-> "function", text |-> "async () => accessTokenOrProvider"]

\* Authorization: `Bearer ${accessToken}`; the template literal takes a string
\* as it is and a function as its source text
Bearer(token) == token.text

\* the options argument: with or without an onPage callback
NoOptions == [onPage |-> FALSE]
WithOnPage == [onPage |-> TRUE]

PageIdle ==
    /\ fpc = "idle"
    /\ startEndpoint = NoLink
    /\ currentEndpoint = NoLink
    /\ allData = <<>>
    /\ pageCount = 0
    /\ requested = <<>>
    /\ delays = 0
    /\ fetched = NoFetch
    /\ accessToken = NoToken
    /\ options = NoOptions
    /\ getLog = <<>>
    /\ responses = <<>>
    /\ onPageCalls = <<>>
    /\ providerCalls = 0
    /\ currentToken = "t1"

PageInit ==
    /\ \E b \in [Endpoints -> UNION {PageBodies(e) : e \in Endpoints}],
          l \in CursorMaps :
          /\ \A e \in Endpoints : b[e] \in PageBodies(e)
          /\ remote = [e \in Endpoints |->
                      [hasValue |-> b[e].hasValue, value |-> b[e].value,
                       nextLink |-> l[e]]]
    /\ PageIdle

otherThanPage == <<dbVars, concVars, retryVars, scanVars, crawlVars,
                   allVars, authVars, limitVars>>

\* variant: a call goes on with the collection of the call before it
CollectionOfCallBefore(data) == data

\* const allData = []: every call collects into an array of its own
NewCollection(data) == <<>>

\* fetchAllWithPagination(endpoint, accessToken) is called; the function
\* declares two parameters, a third argument is not looked at
FetchAll(endpoint, token, opts) ==
    /\ fpc = "idle"
    /\ fetched.state = "none"
    /\ startEndpoint' = endpoint
    /\ currentEndpoint' = endpoint
    /\ accessToken' = token
    /\ options' = opts
    /\ allData' = NewCollection(allData)
    /\ pageCount' = 0
    /\ requested' = <<>>
    /\ delays' = 0
    /\ responses' = <<>>
    /\ fpc' = "request"
    /\ UNCHANGED <<remote, fetched, getLog, onPageCalls, providerCalls,
                   currentToken, otherThanPage>>

\* variant: the error caught is replaced by a new one
PaginationRethrowsNew(error) ==
    [statusCode |-> 500, retryAfter |-> JsUndefined,
     message |-> error.message + 100]

\* catch (error) { logger.error(...); throw error; }
PaginationRethrows(error) == error

\* variant: no delay between two pages
AfterPageWithoutDelay(next) == IF next # NoLink THEN "request" ELSE "done"

\* if (currentEndpoint) await this.delay(requestDelay); then the loop test
AfterPage(next) == IF next # NoLink THEN "delay" ELSE "done"

\* variant: a page is also requested while the previous request is pending
AtLoopHeadOrAwaiting == fpc \in {"request", "awaiting"}

\* the call stands at the head of `while (currentEndpoint)`
AtLoopHead == fpc = "request"

\* a turn of `while (currentEndpoint)` begins: pageCount++, and the page is
\* requested with this.get(currentEndpoint, accessToken).  The log entry
\* also notes what the token provider would have resolved to when the
\* request was sent.
Get ==
    /\ AtLoopHead
    /\ fpc' = "awaiting"
    /\ pageCount' = pageCount + 1
    /\ requested' = Append(requested, currentEndpoint)
    /\ getLog' = Append(getLog, [endpoint |-> currentEndpoint,
                                 authorization |-> Bearer(accessToken),
                                 providerToken |-> currentToken])
    /\ UNCHANGED <<remote, startEndpoint, currentEndpoint, allData, delays,
                   fetched, accessToken, options, responses, onPageCalls,
                   providerCalls, currentToken, otherThanPage>>

\* `await this.get(...)` settles.  ok: the items of the page are appended
\* and its cursor becomes the next endpoint.  ok = FALSE: axios rejected
\* with failure, get throws handleError of it, the catch logs and rethrows.
GetPage(ok, failure) ==
    /\ fpc = "awaiting"
    /\ IF ok
       THEN LET response == remote[currentEndpoint]
            IN /\ responses' = Append(responses,
                                      [endpoint |-> currentEndpoint, ok |-> TRUE,
                                       nextLink |-> NextEndpoint(response)])
               /\ allData' = PushPage(allData, response)
               /\ currentEndpoint' = NextEndpoint(response)
               /\ fpc' = AfterPage(NextEndpoint(response))
               /\ IF NextEndpoint(response) # NoLink
                  THEN UNCHANGED fetched
                  ELSE fetched' = [state |-> "resolved",
                                   data |-> PushPage(allData, response),
                                   error |-> NoAppError,
                                   cause |-> NoFetch.cause]
       ELSE /\ responses' = Append(responses,
                                   [endpoint |-> currentEndpoint, ok |-> FALSE,
                                    nextLink |-> NoLink])
            /\ fpc' = "done"
            /\ fetched' = [state |-> "rejected", data |-> <<>>,
                           error |-> PaginationRethrows(HandleError(failure)),
                           cause |-> failure]
            /\ UNCHANGED <<allData, currentEndpoint>>
    /\ UNCHANGED <<remote, startEndpoint, pageCount, requested, delays,
                   accessToken, options, getLog, onPageCalls, providerCalls,
                   currentToken, otherThanPage>>

\* if (currentEndpoint) await this.delay(this.requestDelay)
Delay ==
    /\ fpc = "delay"
    /\ delays' = delays + 1
    /\ fpc' = "request"
    /\ UNCHANGED <<remote, startEndpoint, currentEndpoint, allData, pageCount,
                   requested, fetched, accessToken, options, getLog,
                   responses, onPageCalls, providerCalls, currentToken,
                   otherThanPage>>

\* the credential is refreshed while a scan runs: from now on the token
\* provider resolves to the new token
RefreshToken ==
    /\ currentToken = "t1"
    /\ currentToken' = "t2"
    /\ UNCHANGED <<remote, fpc, startEndpoint, currentEndpoint, allData,
                   pageCount, requested, delays, fetched, accessToken,
                   options, getLog, responses, onPageCalls, providerCalls,
                   otherThanPage>>

----------------------------------------------------------------------------
(* Retry policy: GraphApiService.handleError and fetchWithRetry *)

\* this.maxRetries (MAX_RETRIES, default '3')
maxRetries == 3
\* variant: every status counts as transient
IsTransientErrorAnyStatus(error) == TRUE

\* isTransientError
IsTransientError(error) == error.statusCode \in TransientStatusCodes

RECURSIVE Pow2(_)
Pow2(k) == IF k = 0 THEN 1 ELSE 2 * Pow2(k - 1)

\* variant: the delay grows by one second per retry
BackoffLinear(k) == (k + 1) * 1000

\* Math.pow(2, retryCount) * 1000
Backoff(k) == Pow2(k) * 1000

\* variant: the wait the server asked for is not looked at
RateLimitWaitBackoffOnly(error, k) == Backoff(k)

\* error.retryAfter || Math.pow(2, retryCount) * 1000
RateLimitWait(error, k) ==
    IF Truthy(error.retryAfter) THEN error.retryAfter.n ELSE Backoff(k)

\* variant: one retry more than the configured number
RetriesLeftInclusive(k) == k <= maxRetries

\* retryCount < this.maxRetries, the test of both retry branches
RetriesLeft(k) == k < maxRetries

\* variant: the error of the first attempt is thrown
ThrowFirstError(error, failures) == HandleError(failures[1])

\* throw error: the error caught by the invocation that gives up; failures
\* are the failures of the call so far, this one included
ThrowLastError(error, failures) == error

NoResult == [state |-> "none", value |-> <<>>, error |-> NoAppError]

RetryIdle ==
    /\ rpc = "idle"
    /\ retryCount = 0
    /\ attempts = 0
    /\ waits = <<>>
    /\ thrown = <<>>
    /\ rresult = NoResult

\* fetchWithRetry(fetchFunction) is called: fetchFunction is invoked
FetchWithRetry ==
    /\ rpc = "idle"
    /\ rresult.state = "none"
    /\ rpc' = "calling"
    /\ retryCount' = 0
    /\ attempts' = 1
    /\ waits' = <<>>
    /\ thrown' = <<>>
    /\ UNCHANGED rresult

\* `await fetchFunction()` settles: the value is returned, or the catch
\* block picks a delay and a retry, or rethrows.  failure is what the
\* request behind a rejection got; the error caught is HandleError(failure).
FnSettles(ok, value, failure) ==
    /\ rpc = "calling"
    /\ UNCHANGED <<retryCount, attempts>>
    /\ IF ok
       THEN /\ rresult' = [state |-> "resolved", value |-> value,
                           error |-> NoAppError]
            /\ rpc' = "done"
            /\ UNCHANGED <<waits, thrown>>
       ELSE LET error == HandleError(failure)
            IN /\ thrown' = Append(thrown, failure)
               /\ IF error.statusCode = 429 /\ RetriesLeft(retryCount)
                  THEN /\ waits' = Append(waits, RateLimitWait(error, retryCount))
                       /\ rpc' = "waiting"
                       /\ UNCHANGED rresult
                  ELSE IF IsTransientError(error) /\ RetriesLeft(retryCount)
                  THEN /\ waits' = Append(waits, Backoff(retryCount))
                       /\ rpc' = "waiting"
                       /\ UNCHANGED rresult
                  ELSE /\ rresult' = [state |-> "rejected", value |-> <<>>,
                                      error |-> ThrowLastError(
                                                   error,
                                                   Append(thrown, failure))]
                       /\ rpc' = "done"
                       /\ UNCHANGED waits

\* the delay elapses: fetchWithRetry(fetchFunction, retryCount + 1) invokes
\* fetchFunction again
RetryDelay ==
    /\ rpc = "waiting"
    /\ rpc' = "calling"
    /\ retryCount' = retryCount + 1
    /\ attempts' = attempts + 1
    /\ UNCHANGED <<waits, thrown, rresult>>

otherThanRetry == <<dbVars, concVars, pageVars, scanVars, crawlVars,
                    allVars, authVars, limitVars>>

----------------------------------------------------------------------------
(* Event scan: EventScannerService.scanUserEvents *)

NoScan == [state |-> "none", eventsProcessed |-> 0, eventsFailed |-> 0,
           error |-> NoAppError]

RECURSIVE ItemCount(_)
\* number of items in a sequence of pages
ItemCount(pages) ==
    IF pages = <<>> THEN 0 ELSE Len(Head(pages)) + ItemCount(Tail(pages))

\* variant: only a calendar that does not exist is taken as empty
CalendarNotAccessibleOn404(error) == error.statusCode = 404

\* if (error.statusCode === 404 || error.statusCode === 403)
CalendarNotAccessible(error) ==
    error.statusCode = 404 \/ error.statusCode = 403

ScanIdle ==
    /\ spc = "idle"
    /\ scanEndpoint = NoLink
    /\ scanResult = NoScan

\* scanUserEvents(userId, tokenProvider) is called and reaches
\* this.graphApi.fetchWithRetry(...); endpoint is the user's calendar
ScanUserEvents(endpoint) ==
    /\ spc = "idle"
    /\ scanResult.state = "none"
    /\ FetchWithRetry
    /\ spc' = "fetching"
    /\ scanEndpoint' = endpoint
    /\ UNCHANGED scanResult

\* fetchFunction: () => fetchAllWithPagination(endpoint, tokenProvider,
\* { onPage })
InvokeFetch ==
    /\ spc = "fetching"
    /\ rpc = "calling"
    /\ FetchAll(scanEndpoint, TokenProvider, WithOnPage)

\* the fetchAllWithPagination call made by fetchFunction settles, and
\* fetchWithRetry goes on with its outcome
FetchSettles ==
    /\ spc = "fetching"
    /\ fpc = "done"
    /\ FnSettles(fetched.state = "resolved", fetched.data, fetched.cause)
    /\ fpc' = "idle"
    /\ fetched' = NoFetch
    /\ UNCHANGED <<remote, startEndpoint, currentEndpoint, allData, pageCount,
                   requested, delays, accessToken, options, getLog,
                   responses, onPageCalls, providerCalls, currentToken>>

\* fetchWithRetry settles: scanUserEvents returns its counters, or its catch
\* block returns the empty summary for 404 and 403 and rethrows the rest.
\* The counters are those of the onPage callback, which counts an event as
\* processed when its upsert resolves (every upsert is taken to resolve).
ScanSettles ==
    /\ spc = "fetching"
    /\ rpc = "done"
    /\ spc' = "done"
    /\ scanResult' =
          IF rresult.state = "resolved"
          THEN [state |-> "resolved", eventsProcessed |-> ItemCount(onPageCalls),
                eventsFailed |-> 0, error |-> NoAppError]
          ELSE IF CalendarNotAccessible(rresult.error)
          THEN [state |-> "resolved", eventsProcessed |-> 0,
                eventsFailed |-> 0, error |-> NoAppError]
          ELSE [state |-> "rejected", eventsProcessed |-> 0,
                eventsFailed |-> 0, error |-> rresult.error]
    /\ UNCHANGED scanEndpoint

----------------------------------------------------------------------------
(* File crawl: FileScannerService.scanUserFiles and scanFolderRecursively *)

\* number of items in the drive below the root
MaxNodes == 4

Nodes == 1..MaxNodes
\* the folder id 'root'
Root == 0
\* an item has the file facet, the folder facet, or neither
Kinds == {"file", "folder", "other"}

\* the drives: every item lies in the root or in a folder
Trees ==
    { t \in [Nodes -> [kind : Kinds, parent : {Root} \cup Nodes]] :
        \A n \in Nodes :
            /\ t[n].parent < n
            /\ t[n].parent # Root => t[t[n].parent].kind = "folder" }

\* the driveItem the listing delivers for item n
DriveItem(n) ==
    [id |-> n, file |-> tree[n].kind = "file", folder |-> tree[n].kind = "folder"]

\* what fetchAllWithPagination returns for the children of a folder
Children(folder) ==
    SelectSeq([n \in Nodes |-> DriveItem(n)],
              LAMBDA item : tree[item.id].parent = folder)

Frame(folder) == [folder |-> folder, items |-> <<>>, idx |-> 1, allFiles |-> <<>>]

NoCrawl == [state |-> "none", files |-> <<>>, error |-> NoAppError]

\* variant: no status is taken as a missing drive
NoOneDriveNever(error) == FALSE

\* if (error.statusCode === 404)
NoOneDrive(error) == error.statusCode = 404

\* variant: a folder is not descended into
DescendNever(item) == FALSE

\* else if (item.folder)
Descend(item) == item.folder

CrawlIdle ==
    /\ cpc = "idle"
    /\ stack = <<>>
    /\ files = <<>>
    /\ pidx = 0
    /\ upsertLog = <<>>
    /\ listed = <<>>
    /\ crawlResult = NoCrawl

NoTree == [n \in Nodes |-> [kind |-> "other", parent |-> Root]]

CrawlInit ==
    /\ tree \in Trees
    /\ CrawlIdle

\* scanUserFiles(userId, accessToken) is called and calls
\* scanFolderRecursively(userId, 'root', accessToken)
ScanUserFiles ==
    /\ cpc = "idle"
    /\ crawlResult.state = "none"
    /\ cpc' = "list"
    /\ stack' = <<Frame(Root)>>
    /\ UNCHANGED <<tree, files, pidx, upsertLog, listed, crawlResult>>

\* scanFolderRecursively calls fetchWithRetry for the children of its folder
ListFolder ==
    /\ cpc = "list"
    /\ FetchWithRetry
    /\ cpc' = "listing"
    /\ UNCHANGED <<tree, stack, files, pidx, upsertLog, listed, crawlResult>>

\* fetchWithRetry settles.  Resolved: the loop over the items starts.
\* Rejected: the error leaves every scanFolderRecursively in progress and
\* reaches the catch block of scanUserFiles, which returns [] for a 404 and
\* rethrows anything else.
ListSettles ==
    /\ cpc = "listing"
    /\ rpc = "done"
    /\ listed' = Append(listed, [folder |-> stack[Len(stack)].folder,
                                 status |-> rresult.error.statusCode])
    /\ IF rresult.state = "resolved"
       THEN /\ stack' = [stack EXCEPT ![Len(stack)].items = rresult.value]
            /\ cpc' = "walk"
            /\ UNCHANGED crawlResult
       ELSE /\ stack' = <<>>
            /\ cpc' = "done"
            /\ crawlResult' =
                  IF NoOneDrive(rresult.error)
                  THEN [state |-> "resolved", files |-> <<>>, error |-> NoAppError]
                  ELSE [state |-> "rejected", files |-> <<>>,
                        error |-> rresult.error]
    /\ rpc' = "idle"
    /\ retryCount' = 0
    /\ attempts' = 0
    /\ waits' = <<>>
    /\ thrown' = <<>>
    /\ rresult' = NoResult
    /\ UNCHANGED <<tree, files, pidx, upsertLog>>

\* one turn of `for (const item of items)` in the innermost
\* scanFolderRecursively, or its return when the items are used up
Walk ==
    /\ cpc = "walk"
    /\ LET d == Len(stack)
           top == stack[d]
       IN IF top.idx <= Len(top.items)
          THEN LET item == top.items[top.idx]
               IN IF item.file
                  THEN /\ stack' = [stack EXCEPT
                                      ![d].allFiles = Append(top.allFiles, item),
                                      ![d].idx = top.idx + 1]
                       /\ UNCHANGED <<cpc, files, pidx>>
                  ELSE IF Descend(item)
                  THEN /\ stack' = Append(stack, Frame(item.id))
                       /\ cpc' = "list"
                       /\ UNCHANGED <<files, pidx>>
                  ELSE /\ stack' = [stack EXCEPT ![d].idx = top.idx + 1]
                       /\ UNCHANGED <<cpc, files, pidx>>
          ELSE IF d = 1
          THEN /\ files' = top.allFiles
               /\ pidx' = 1
               /\ stack' = <<>>
               /\ cpc' = "persist"
          ELSE /\ stack' = [SubSeq(stack, 1, d - 1) EXCEPT
                              ![d - 1].allFiles = stack[d - 1].allFiles \o top.allFiles,
                              ![d - 1].idx = stack[d - 1].idx + 1]
               /\ UNCHANGED <<cpc, files, pidx>>
    /\ UNCHANGED <<tree, upsertLog, listed, crawlResult>>

\* one turn of `for (const file of allFiles)`: upsertFile resolves, or it
\* throws and the catch block logs the error
Persist(ok) ==
    /\ cpc = "persist"
    /\ pidx <= Len(files)
    /\ upsertLog' = Append(upsertLog, [file |-> files[pidx].id, ok |-> ok])
    /\ pidx' = pidx + 1
    /\ UNCHANGED <<tree, cpc, stack, files, listed, crawlResult>>

\* return allFiles
ScanUserFilesReturns ==
    /\ cpc = "persist"
    /\ pidx > Len(files)
    /\ cpc' = "done"
    /\ crawlResult' = [state |-> "resolved", files |-> files, error |-> NoAppError]
    /\ UNCHANGED <<tree, stack, files, pidx, upsertLog, listed>>

\* `/users/${userId}/drive/items/${folderId}/children`: the endpoint of the
\* first page of a folder's listing; the endpoints that follow it are those
\* of the later pages of the listing
FolderEndpoint(folder) == folder * (MaxNodes + 1) + 1

ListingEndpoints == 1..((MaxNodes + 1) * (MaxNodes + 1))

\* the drive as the API serves it: the children of a folder come in pages
\* of MaxPageItems items, each page but the last with the cursor of the next
ListingRemote ==
    [e \in ListingEndpoints |->
        LET folder == (e - 1) \div (MaxNodes + 1)
            page == ((e - 1) % (MaxNodes + 1)) + 1
            children == Children(folder)
            from == (page - 1) * MaxPageItems + 1
            to == IF page * MaxPageItems < Len(children)
                  THEN page * MaxPageItems ELSE Len(children)
        IN IF page = 1 \/ from <= Len(children)
           THEN [hasValue |-> TRUE, value |-> SubSeq(children, from, to),
                 nextLink |-> IF to < Len(children) THEN e + 1 ELSE NoLink]
           ELSE EmptyPage]

\* fetchFunction of a listing: () => fetchAllWithPagination(
\* `/users/${userId}/drive/items/${folderId}/children`, accessToken)
InvokeListingFetch ==
    /\ cpc = "listing"
    /\ rpc = "calling"
    /\ FetchAll(FolderEndpoint(stack[Len(stack)].folder), StringToken("t1"),
                NoOptions)

\* the fetchAllWithPagination call of a listing settles, and fetchWithRetry
\* goes on with its outcome; the request log starts anew with each call
ListingFetchSettles ==
    /\ cpc = "listing"
    /\ fpc = "done"
    /\ FnSettles(fetched.state = "resolved", fetched.data, fetched.cause)
    /\ fpc' = "idle"
    /\ fetched' = NoFetch
    /\ getLog' = <<>>
    /\ UNCHANGED <<remote, startEndpoint, currentEndpoint, allData, pageCount,
                   requested, delays, accessToken, options, responses,
                   onPageCalls, providerCalls, currentToken>>
    /\ UNCHANGED <<dbVars, concVars, allVars, authVars, limitVars, scanVars,
                   crawlVars>>

----------------------------------------------------------------------------
(* Scans of all users: scanAllUserFiles and scanAllUserEvents *)

\* largest number of items one user's scan reports
MaxCount == 1

ScanKinds == {"files", "events"}

\* a user row; the scans read its id
User(i) == i

\* what scanUserFiles resolves to: the list of the user's files
FileLists == { [j \in 1..n |-> j] : n \in 0..MaxCount }

\* what scanUserEvents resolves to: { eventsProcessed, eventsFailed }
EventSummaries ==
    { s \in [eventsProcessed : 0..MaxCount, eventsFailed : 0..MaxCount] :
        s.eventsProcessed + s.eventsFailed <= MaxCount }

ScanValues(kind) == IF kind = "files" THEN FileLists ELSE EventSummaries

\* userFiles.length, or summary.eventsProcessed
Processed(kind, data) ==
    IF kind = "files" THEN Len(data) ELSE data.eventsProcessed

\* summary.eventsFailed; scanAllUserFiles counts no failed files
Failed(kind, data) == IF kind = "files" THEN 0 ELSE data.eventsFailed

\* variant: total = count
OverwriteTotal(sum, count) == count

\* total += count
AddToTotal(sum, count) == sum + count

\* variant: every record counts as a success
SuccessCountAll(rs) == Len(rs)

\* results.filter(r => r.success).length
SuccessCount(rs) == Cardinality({ i \in 1..Len(rs) : rs[i].success })

\* results.filter(r => !r.success).length
FailureCount(rs) == Cardinality({ i \in 1..Len(rs) : ~rs[i].success })

NoAllResult ==
    [state |-> "none", totalUsers |-> 0, successfulUsers |-> 0,
     failedUsers |-> 0, total |-> 0, failedEvents |-> 0, results |-> <<>>]

\* the return value when getAllUsers found no user: it has no
\* successfulUsers, failedUsers or results property
NoUsersResult ==
    [state |-> "resolved", totalUsers |-> 0, successfulUsers |-> 0,
     failedUsers |-> 0, total |-> 0, failedEvents |-> 0, results |-> <<>>]

AllIdle ==
    /\ apc = "idle"
    /\ scanKind = "files"
    /\ users = <<>>
    /\ returning = [i \in Indices |-> NotSettled]
    /\ totalScanned = 0
    /\ totalFailures = 0
    /\ allResult = NoAllResult

\* scanAllUserFiles(accessToken) or scanAllUserEvents(tokenProvider) is
\* called and awaits userRepository.getAllUsers()
ScanAllUsers(kind) ==
    /\ apc = "idle"
    /\ allResult.state = "none"
    /\ rcState = "idle"
    /\ apc' = "users"
    /\ scanKind' = kind
    /\ UNCHANGED <<users, returning, totalScanned, totalFailures,
                   allResult>>
    /\ UNCHANGED <<concVars, otherThanConc>>

\* getAllUsers settles.  It rejects: the catch block rethrows.  No user:
\* the early return.  Otherwise the totals are set to 0 and runConcurrent
\* is called with one task per user.
UsersSettle(ok, n) ==
    /\ apc = "users"
    /\ UNCHANGED <<scanKind, returning>>
    /\ IF ~ok
       THEN /\ apc' = "done"
            /\ allResult' = [NoAllResult EXCEPT !.state = "rejected"]
            /\ UNCHANGED <<users, totalScanned, totalFailures>>
            /\ UNCHANGED <<concVars, otherThanConc>>
       ELSE /\ users' = [i \in 1..n |-> User(i)]
            /\ IF n = 0
               THEN /\ apc' = "done"
                    /\ allResult' = NoUsersResult
                    /\ UNCHANGED <<totalScanned, totalFailures>>
                    /\ UNCHANGED <<concVars, otherThanConc>>
               ELSE /\ apc' = "running"
                    /\ totalScanned' = 0
                    /\ totalFailures' = 0
                    /\ UNCHANGED allResult
                    /\ RunConcurrent([i \in 1..n |-> User(i)])

\* the task of user i: `await this.scanUserFiles(...)` (scanUserEvents)
\* settles.  ok: the counts of the user are added to the totals and the
\* task returns the value; otherwise the task throws and adds nothing.
UserScanSettles(i, ok, value) ==
    /\ apc = "running"
    /\ rcState = "running"
    /\ i \in active
    /\ returning[i].state = Pending
    /\ returning' = [returning EXCEPT ![i] =
                        [state |-> IF ok THEN "returned" ELSE "threw",
                         value |-> value]]
    /\ IF ok
       THEN /\ totalScanned' =
                  AddToTotal(totalScanned, Processed(scanKind, value))
            /\ totalFailures' =
                  AddToTotal(totalFailures, Failed(scanKind, value))
       ELSE UNCHANGED <<totalScanned, totalFailures>>
    /\ UNCHANGED <<apc, scanKind, users, allResult>>
    /\ UNCHANGED <<concVars, otherThanConc>>

\* the task of user i has settled: the limiter function goes on
UserTaskSettles(i) ==
    /\ apc = "running"
    /\ returning[i].state # Pending
    /\ TaskSettles(i, returning[i].state = "returned", returning[i].value)
    /\ UNCHANGED allVars

\* `await concurrencyService.runConcurrent(...)` settles: the users are
\* counted by outcome and the summary is returned; a rejection is rethrown
ScanAllReturns ==
    /\ apc = "running"
    /\ RunReturns
    /\ apc' = "done"
    /\ allResult' =
          IF rcState = "resolved"
          THEN [state |-> "resolved",
                totalUsers |-> Len(users),
                successfulUsers |-> SuccessCount(results),
                failedUsers |-> FailureCount(results),
                total |-> totalScanned,
                failedEvents |-> totalFailures,
                results |-> results]
          ELSE [NoAllResult EXCEPT !.state = "rejected"]
    /\ UNCHANGED <<scanKind, users, returning, totalScanned, totalFailures>>

----------------------------------------------------------------------------
(* Tokens of a session: AuthService *)

\* bounds on the getValidAccessToken calls, the refresh requests and the
\* logins of the session
MaxCallers == 3
MaxRefreshes == 2
MaxLogins == 2

NoTokenData == [present |-> FALSE, access_token |-> 0, refresh_token |-> FALSE,
                expired |-> FALSE]

\* the entry storeToken sets: the token data with expiresAt in the future
TokenData(token, hasRefresh) ==
    [present |-> TRUE, access_token |-> token, refresh_token |-> hasRefresh,
     expired |-> FALSE]

NoRefresh == 0

AuthIdle ==
    /\ tokenStore = NoTokenData
    /\ refreshPromises = NoRefresh
    /\ refreshes = <<>>
    /\ calls = <<>>
    /\ removed = FALSE
    /\ issued = 0

otherThanAuth == <<dbVars, concVars, pageVars, retryVars, scanVars, crawlVars,
                   allVars, limitVars>>

\* the OAuth callback: authService.storeToken(req.session.id, tokenData).
\* No request carries the id of a session that logout has destroyed; the
\* logins end when MaxLogins tokens have been issued.
Login(hasRefresh) ==
    /\ ~removed
    /\ issued < MaxLogins
    /\ issued' = issued + 1
    /\ tokenStore' = TokenData(issued + 1, hasRefresh)
    /\ UNCHANGED <<refreshPromises, refreshes, calls, removed, otherThanAuth>>

\* time passes: Date.now() >= expiresAt - 5 minutes from now on
Expire ==
    /\ tokenStore.present
    /\ ~tokenStore.expired
    /\ tokenStore' = [tokenStore EXCEPT !.expired = TRUE]
    /\ UNCHANGED <<refreshPromises, refreshes, calls, removed, issued,
                   otherThanAuth>>

\* variant: a refresh in progress is not looked for
RefreshInProgressNever(promise) == FALSE

\* this.refreshPromises.has(sessionId)
RefreshInProgress(promise) == promise # NoRefresh

\* getValidAccessToken(sessionId), called by a request of the session or by
\* the accessTokenProvider of a scan that is still running
GetValidAccessToken ==
    /\ Len(calls) < MaxCallers
    /\ IF ~tokenStore.present
       THEN /\ calls' = Append(calls, [kind |-> "error", token |-> 0,
                                       refresh |-> NoRefresh])
            /\ UNCHANGED <<refreshPromises, refreshes>>
       ELSE IF ~tokenStore.expired
       THEN /\ calls' = Append(calls, [kind |-> "token",
                                       token |-> tokenStore.access_token,
                                       refresh |-> NoRefresh])
            /\ UNCHANGED <<refreshPromises, refreshes>>
       ELSE IF ~tokenStore.refresh_token
       THEN /\ calls' = Append(calls, [kind |-> "error", token |-> 0,
                                       refresh |-> NoRefresh])
            /\ UNCHANGED <<refreshPromises, refreshes>>
       ELSE IF RefreshInProgress(refreshPromises)
       THEN /\ calls' = Append(calls, [kind |-> "promise", token |-> 0,
                                       refresh |-> refreshPromises])
            /\ UNCHANGED <<refreshPromises, refreshes>>
       ELSE /\ Len(refreshes) < MaxRefreshes
            /\ refreshes' = Append(refreshes,
                                   [state |-> "pending", token |-> 0,
                                    afterRemoval |-> removed])
            /\ refreshPromises' = Len(refreshes) + 1
            /\ calls' = Append(calls, [kind |-> "promise", token |-> 0,
                                       refresh |-> Len(refreshes) + 1])
    /\ UNCHANGED <<tokenStore, removed, issued, otherThanAuth>>

\* .then: this.storeToken(sessionId, newTokenData)
StoreRefreshed(store, newTokenData) == newTokenData

\* the refreshAccessToken request r settles: .then stores the new token
\* data and clears refreshPromises; .catch clears refreshPromises and
\* rethrows
RefreshSettles(r, ok) ==
    /\ r \in 1..Len(refreshes)
    /\ refreshes[r].state = "pending"
    /\ refreshPromises' = NoRefresh
    /\ IF ok
       THEN /\ issued' = issued + 1
            /\ refreshes' = [refreshes EXCEPT ![r].state = "resolved",
                                              ![r].token = issued + 1]
            /\ tokenStore' = StoreRefreshed(tokenStore,
                                            TokenData(issued + 1, TRUE))
       ELSE /\ refreshes' = [refreshes EXCEPT ![r].state = "rejected"]
            /\ UNCHANGED <<tokenStore, issued>>
    /\ UNCHANGED <<calls, removed, otherThanAuth>>

\* logout: authService.removeToken(sessionId)
RemoveToken ==
    /\ ~removed
    /\ tokenStore' = NoTokenData
    /\ refreshPromises' = NoRefresh
    /\ removed' = TRUE
    /\ UNCHANGED <<refreshes, calls, issued, otherThanAuth>>

----------------------------------------------------------------------------
(* Dispatcher: overlapping runConcurrent calls and setConcurrency *)

\* number of runConcurrent calls and of setConcurrency calls looked at
MaxBatches == 2
MaxSets == 1

\* pLimit(concurrency): nothing running, nothing queued
PLimit(concurrency) == [concurrency |-> concurrency, running |-> 0, queued |-> 0]

LimitIdle ==
    /\ limiters = <<>>
    /\ batches = 0

\* constructor: this.limiter = pLimit(this.concurrentRequests)
LimitInit ==
    /\ concurrentRequests \in 1..MaxLimit
    /\ limiters = <<PLimit(concurrentRequests)>>
    /\ batches = 0

otherThanLimit == <<items, rcState, queue, active, invoked, settled, outcome,
                    completed, progress, doneOrder, peak, results, dbVars,
                    pageVars, retryVars, scanVars, crawlVars, allVars, authVars>>

\* runConcurrent(items, ...) with n items, possibly while an earlier call is
\* still awaiting its tasks: items.map hands n functions to this.limiter,
\* the limiter that is current at the moment of the call
RunConcurrentOverlapping(n) ==
    /\ batches < MaxBatches
    /\ batches' = batches + 1
    /\ LET l == Len(limiters)
           m == Startable(n, limiters[l].running, limiters[l].concurrency)
       IN limiters' = [limiters EXCEPT ![l].running = @ + m,
                                       ![l].queued = @ + (n - m)]
    /\ UNCHANGED <<concurrentRequests, otherThanLimit>>

\* a task running under limiter l settles: that limiter frees the slot and
\* starts the head of its own queue
LimiterTaskSettles(l) ==
    /\ l \in 1..Len(limiters)
    /\ limiters[l].running > 0
    /\ LET r == RunningAfterSettle(TRUE, limiters[l].running)
           m == Startable(limiters[l].queued, r, limiters[l].concurrency)
       IN limiters' = [limiters EXCEPT ![l].running = r + m,
                                       ![l].queued = @ - m]
    /\ UNCHANGED <<concurrentRequests, batches, otherThanLimit>>

\* setConcurrency(limit): this.concurrentRequests = limit;
\* this.limiter = pLimit(limit).  The functions handed to the limiter
\* before stay with it.
SetConcurrency(limit) ==
    /\ Len(limiters) < 1 + MaxSets
    /\ concurrentRequests' = limit
    /\ limiters' = Append(limiters, PLimit(limit))
    /\ UNCHANGED <<batches, otherThanLimit>>

----------------------------------------------------------------------------
(* Specifications *)

\* the parts a specification does not exercise rest in these states
DbIdle ==
    /\ dbType = "sqlite"
    /\ calendar_events = {}
    /\ event_attendees = <<>>
    /\ txnOpen = [n \in Conns |-> FALSE]
    /\ txnLog = [n \in Conns |-> <<>>]
    /\ checkedOut = {}
    /\ pc = [c \in Calls |-> "idle"]
    /\ arg = [c \in Calls |-> NoArg]
    /\ attIdx = [c \in Calls |-> 0]
    /\ pre = [c \in Calls |-> NoSnapshot]
    /\ tx = [c \in Calls |-> NoTx]
    /\ ncalls = 0
    /\ tasks = {"c1"}

ConcIdle ==
    /\ concurrentRequests = 1
    /\ items = <<>>
    /\ rcState = "idle"
    /\ queue = <<>>
    /\ active = {}
    /\ invoked = [i \in Indices |-> 0]
    /\ settled = [i \in Indices |-> NotSettled]
    /\ outcome = [i \in Indices |-> NoPromise]
    /\ completed = 0
    /\ progress = <<>>
    /\ doneOrder = <<>>
    /\ peak = 0
    /\ results = <<>>

RemoteIdle == remote = [e \in Endpoints |-> EmptyPage]

InitDb ==
    /\ DbInit /\ ConcIdle /\ AllIdle /\ AuthIdle /\ LimitIdle /\ RemoteIdle /\ PageIdle /\ RetryIdle
    /\ ScanIdle
    /\ tree = NoTree /\ CrawlIdle

NextDb ==
    \/ \E c \in Calls, ed \in EventData, u \in Users : UpsertEvent(c, ed, u)
    \/ \E c \in Calls, ok \in BOOLEAN : GetClient(c, ok)
    \/ \E c \in Calls, ok \in BOOLEAN : Begin(c, ok)
    \/ \E c \in Calls, ok \in BOOLEAN : InsertParent(c, ok)
    \/ \E c \in Calls, ok \in BOOLEAN : DeleteAttendees(c, ok)
    \/ \E c \in Calls, ok \in BOOLEAN : InsertAttendee(c, ok)
    \/ \E c \in Calls, ok \in BOOLEAN : Commit(c, ok)
    \/ \E c \in Calls, ok \in BOOLEAN : Rollback(c, ok)
    \/ \E c \in Calls : Return(c)

SpecDb == InitDb /\ [][NextDb]_vars

InitConc ==
    /\ ConcInit /\ DbIdle /\ RemoteIdle /\ PageIdle /\ RetryIdle /\ ScanIdle
    /\ tree = NoTree /\ CrawlIdle /\ AllIdle /\ AuthIdle /\ LimitIdle

NextConc ==
    \/ \E its \in SeqsUpTo(ItemSet, MaxItems) :
          RunConcurrent(its) /\ UNCHANGED allVars
    \/ \E i \in Indices, ok \in BOOLEAN, v \in TaskValues :
          TaskSettles(i, ok, v) /\ UNCHANGED allVars
    \/ PromiseAllSettles /\ UNCHANGED allVars
    \/ RunReturns /\ UNCHANGED allVars

SpecConc == InitConc /\ [][NextConc]_vars

\* the calls of the fair specification: the items are alike and the tasks
\* settle with one value, since only the number of items, the limit and
\* which tasks throw bear on what is started and when the call resolves
NextConcFair ==
    \/ \E its \in SeqsUpTo({"A"}, MaxItems) :
          RunConcurrent(its) /\ UNCHANGED allVars
    \/ \E i \in Indices, ok \in BOOLEAN :
          TaskSettles(i, ok, "v1") /\ UNCHANGED allVars
    \/ PromiseAllSettles /\ UNCHANGED allVars
    \/ RunReturns /\ UNCHANGED allVars

\* the assumption that every task invocation settles: a task in flight
\* settles sooner or later, and the event loop runs the continuations of
\* settled promises (Promise.all, the return to the caller)
FairConc ==
    /\ \A i \in Indices :
          WF_vars(\E ok \in BOOLEAN :
                     TaskSettles(i, ok, "v1") /\ UNCHANGED allVars)
    /\ WF_vars(PromiseAllSettles /\ UNCHANGED allVars)
    /\ WF_vars(RunReturns /\ UNCHANGED allVars)

SpecConcFair == InitConc /\ [][NextConcFair]_vars /\ FairConc

InitPage ==
    /\ PageInit /\ DbIdle /\ ConcIdle /\ AllIdle /\ AuthIdle /\ LimitIdle /\ RetryIdle /\ ScanIdle
    /\ tree = NoTree /\ CrawlIdle

NextPage ==
    \/ \E e \in Endpoints : FetchAll(e, StringToken("t1"), NoOptions)
    \/ Get
    \/ \E ok \in BOOLEAN :
          GetPage(ok, WithMessage(HttpFailure(500, NoHeader), pageCount))
    \/ Delay

SpecPage == InitPage /\ [][NextPage]_vars

\* fetchWithRetry around an operation that stands for any request of the
\* scanner: each invocation returns data or fails the way axios.get fails
InitRetry ==
    /\ RetryIdle /\ DbIdle /\ ConcIdle /\ AllIdle /\ AuthIdle /\ LimitIdle /\ RemoteIdle /\ PageIdle
    /\ ScanIdle
    /\ tree = NoTree /\ CrawlIdle

NextRetry ==
    \/ FetchWithRetry /\ UNCHANGED otherThanRetry
    \/ \E ok \in BOOLEAN, f \in Failures :
          /\ FnSettles(ok, <<"data">>, WithMessage(f, attempts))
          /\ UNCHANGED otherThanRetry
    \/ RetryDelay /\ UNCHANGED otherThanRetry

SpecRetry == InitRetry /\ [][NextRetry]_vars

\* the collection an event scan reads: every page holds items of its own
\* and hands out the cursor of the next page, the last page hands out none
ScanRemote ==
    [e \in Endpoints |->
        [hasValue |-> TRUE, value |-> PageValue(e, MaxPageItems),
         nextLink |-> IF e < MaxPages THEN e + 1 ELSE NoLink]]

\* what the requests of an event scan fail with
ScanFailures ==
    {HttpFailure(429, SecondsHeader(1)), HttpFailure(503, NoHeader),
     HttpFailure(404, NoHeader)}

\* scanUserEvents over fetchWithRetry over fetchAllWithPagination
InitScan ==
    /\ remote = ScanRemote
    /\ PageIdle /\ RetryIdle /\ ScanIdle /\ DbIdle /\ ConcIdle /\ AllIdle /\ AuthIdle /\ LimitIdle
    /\ tree = NoTree /\ CrawlIdle

NextScan ==
    \/ \E e \in Endpoints :
          ScanUserEvents(e) /\ UNCHANGED <<dbVars, concVars, allVars, authVars, limitVars, pageVars, crawlVars>>
    \/ InvokeFetch
    \/ Get
    \/ \E ok \in BOOLEAN, f \in ScanFailures :
          GetPage(ok, WithMessage(f, Len(getLog)))
    \/ Delay
    \/ FetchSettles /\ UNCHANGED <<dbVars, concVars, allVars, authVars, limitVars, scanVars, crawlVars>>
    \/ RetryDelay /\ UNCHANGED otherThanRetry
    \/ ScanSettles /\ UNCHANGED <<dbVars, concVars, allVars, authVars, limitVars, pageVars, retryVars, crawlVars>>
    \/ RefreshToken

SpecScan == InitScan /\ [][NextScan]_vars

\* what the listings of a crawl and the fetch of an event scan fail with
CrawlFailures == { HttpFailure(st, NoHeader) : st \in {403, 404, 503} }

\* scanUserFiles, and scanUserEvents, each over fetchWithRetry around a
\* fetch that returns the whole collection or fails
InitCrawl ==
    /\ CrawlInit
    /\ RemoteIdle /\ PageIdle /\ RetryIdle /\ ScanIdle /\ DbIdle /\ ConcIdle
    /\ AllIdle /\ AuthIdle /\ LimitIdle

NextCrawl ==
    \/ /\ spc = "idle"
       /\ ScanUserFiles
       /\ UNCHANGED <<dbVars, concVars, allVars, authVars, limitVars, pageVars, retryVars, scanVars>>
    \/ ListFolder /\ UNCHANGED <<dbVars, concVars, allVars, authVars, limitVars, pageVars, scanVars>>
    \/ \E ok \in BOOLEAN, f \in CrawlFailures :
          /\ FnSettles(ok,
                       IF cpc = "listing" THEN Children(stack[Len(stack)].folder)
                                          ELSE <<>>,
                       WithMessage(f, Len(listed) + attempts))
          /\ UNCHANGED otherThanRetry
    \/ RetryDelay /\ UNCHANGED otherThanRetry
    \/ ListSettles /\ UNCHANGED <<dbVars, concVars, allVars, authVars, limitVars, pageVars, scanVars>>
    \/ Walk /\ UNCHANGED <<dbVars, concVars, allVars, authVars, limitVars, pageVars, retryVars, scanVars>>
    \/ \E ok \in BOOLEAN :
          Persist(ok) /\ UNCHANGED <<dbVars, concVars, allVars, authVars, limitVars, pageVars, retryVars, scanVars>>
    \/ ScanUserFilesReturns
          /\ UNCHANGED <<dbVars, concVars, allVars, authVars, limitVars, pageVars, retryVars, scanVars>>
    \/ \E e \in Endpoints :
          /\ cpc = "idle"
          /\ ScanUserEvents(e)
          /\ UNCHANGED <<dbVars, concVars, allVars, authVars, limitVars, pageVars, crawlVars>>
    \/ ScanSettles /\ UNCHANGED <<dbVars, concVars, allVars, authVars, limitVars, pageVars, retryVars, crawlVars>>

SpecCrawl == InitCrawl /\ [][NextCrawl]_vars

\* scanUserFiles over fetchWithRetry over fetchAllWithPagination: every
\* listing is fetched page by page; every item of the drive is a file or a
\* folder (an item that is neither is skipped by the loop and takes no
\* part in a listing)
InitCrawlFair ==
    /\ tree \in { t \in Trees : \A n \in Nodes : t[n].kind # "other" }
    /\ CrawlIdle
    /\ remote = ListingRemote
    /\ PageIdle /\ RetryIdle /\ ScanIdle /\ DbIdle /\ ConcIdle
    /\ AllIdle /\ AuthIdle /\ LimitIdle

\* the steps of a scanUserFiles call in progress
CrawlStep ==
    \/ ListFolder
          /\ UNCHANGED <<dbVars, concVars, allVars, authVars, limitVars,
                         pageVars, scanVars>>
    \/ InvokeListingFetch
    \/ Get
    \/ \E ok \in BOOLEAN, f \in CrawlFailures :
          GetPage(ok, WithMessage(f, Len(getLog)))
    \/ Delay
    \/ ListingFetchSettles
    \/ RetryDelay /\ UNCHANGED otherThanRetry
    \/ ListSettles
          /\ UNCHANGED <<dbVars, concVars, allVars, authVars, limitVars,
                         pageVars, scanVars>>
    \/ Walk
          /\ UNCHANGED <<dbVars, concVars, allVars, authVars, limitVars,
                         pageVars, retryVars, scanVars>>
    \/ \E ok \in BOOLEAN :
          Persist(ok)
          /\ UNCHANGED <<dbVars, concVars, allVars, authVars, limitVars,
                         pageVars, retryVars, scanVars>>
    \/ ScanUserFilesReturns
          /\ UNCHANGED <<dbVars, concVars, allVars, authVars, limitVars,
                         pageVars, retryVars, scanVars>>

NextCrawlFair ==
    \/ ScanUserFiles
          /\ UNCHANGED <<dbVars, concVars, allVars, authVars, limitVars,
                         pageVars, retryVars, scanVars>>
    \/ CrawlStep

\* the assumption that every request succeeds or fails sooner or later:
\* a request sent settles, a timer set fires, and the event loop runs the
\* continuation of every settled promise, so the call in progress takes
\* its next step
FairCrawl == WF_vars(CrawlStep)

SpecCrawlFair == InitCrawlFair /\ [][NextCrawlFair]_vars /\ FairCrawl

\* scanAllUserFiles and scanAllUserEvents over the dispatcher; each user's
\* scan resolves to some value the per-user scans can resolve to, or fails
InitAll ==
    /\ ConcInit /\ AllIdle /\ AuthIdle /\ LimitIdle /\ DbIdle /\ RemoteIdle /\ PageIdle /\ RetryIdle
    /\ ScanIdle /\ tree = NoTree /\ CrawlIdle

NextAll ==
    \/ \E kind \in ScanKinds : ScanAllUsers(kind)
    \/ \E ok \in BOOLEAN, n \in 0..MaxItems : UsersSettle(ok, n)
    \/ \E i \in Indices, v \in ScanValues(scanKind) : UserScanSettles(i, TRUE, v)
    \/ \E i \in Indices : UserScanSettles(i, FALSE, "scan failed")
    \/ \E i \in Indices : UserTaskSettles(i)
    \/ PromiseAllSettles /\ UNCHANGED allVars
    \/ ScanAllReturns

SpecAll == InitAll /\ [][NextAll]_vars

\* one session: logins, the passing of time, overlapping getValidAccessToken
\* calls, the token endpoint answering, logout
InitAuth ==
    /\ AuthIdle /\ LimitIdle /\ ConcIdle /\ AllIdle /\ DbIdle /\ RemoteIdle /\ PageIdle
    /\ RetryIdle /\ ScanIdle /\ tree = NoTree /\ CrawlIdle

NextAuth ==
    \/ \E hasRefresh \in BOOLEAN : Login(hasRefresh)
    \/ Expire
    \/ GetValidAccessToken
    \/ \E r \in 1..MaxRefreshes, ok \in BOOLEAN : RefreshSettles(r, ok)
    \/ RemoveToken

SpecAuth == InitAuth /\ [][NextAuth]_vars

\* runConcurrent calls that overlap on the ConcurrencyService singleton
InitLimit ==
    /\ LimitInit
    /\ items = <<>> /\ rcState = "idle" /\ queue = <<>> /\ active = {}
    /\ invoked = [i \in Indices |-> 0]
    /\ settled = [i \in Indices |-> NotSettled]
    /\ outcome = [i \in Indices |-> NoPromise]
    /\ completed = 0 /\ progress = <<>> /\ doneOrder = <<>> /\ peak = 0
    /\ results = <<>>
    /\ AllIdle /\ AuthIdle /\ DbIdle /\ RemoteIdle /\ PageIdle /\ RetryIdle
    /\ ScanIdle /\ tree = NoTree /\ CrawlIdle

NextLimit ==
    \/ \E n \in 1..MaxItems : RunConcurrentOverlapping(n)
    \/ \E l \in 1..(1 + MaxSets) : LimiterTaskSettles(l)
    \/ \E limit \in 1..MaxLimit : SetConcurrency(limit)

SpecLimit == InitLimit /\ [][NextLimit]_vars

----------------------------------------------------------------------------
(* Properties of the storage part (SpecDb) *)

Done(c) == pc[c] = "done"
Rejected(c) == Done(c) /\ tx[c].outcome = "rejected"
Resolved(c) == Done(c) /\ tx[c].outcome = "resolved"
EventOf(c) == arg[c].eventData
NewEvent(c) == pre[c].parent = {}

\* a step after the parent insert failed: the attendee DELETE, an attendee
\* INSERT or the COMMIT
FailedAfterParent(c) ==
    \/ tx[c].fnErr \in {"attendee delete failed", "attendee insert failed"}
    \/ tx[c].commit = "failed"

\* the rows upsertAttendeesInTransaction binds for the attendees of the event
SuppliedRows(ed) ==
    [i \in 1..Len(ed.attendees.list) |-> AttendeeRow(ed.id, ed.attendees.list[i])]

\* C1: when upsertEvent for an event that was not stored, carrying a
\* non-empty attendee list, has rejected because a step after the parent
\* insert failed, the event has no calendar_events row and no
\* event_attendees row.
C1_NewEventAbsentAfterFailure ==
    \A c \in Calls :
        (Rejected(c) /\ NewEvent(c) /\ HasAttendees(EventOf(c)) /\ FailedAfterParent(c))
            => Absent(Committed, EventOf(c).id)

\* C1 witness: a new event with two attendees, the first attendee inserted,
\* the insert of the second threw, the call has rejected
C1_Witness ==
    \E c \in Calls :
        /\ Rejected(c) /\ NewEvent(c)
        /\ Len(EventOf(c).attendees.list) = 2
        /\ attIdx[c] = 2
        /\ tx[c].fnErr = "attendee insert failed"

\* C2: when upsertEvent for an already stored event has rejected, at
\* whichever step it failed, the stored parent row and the stored attendee
\* rows of the event are what they were when the call started.
C2_StoredEventUnchangedAfterFailure ==
    \A c \in Calls :
        (Rejected(c) /\ ~NewEvent(c))
            => StoredEvent(Committed, EventOf(c).id) = pre[c]

\* C2 witness: a stored event with attendees; the update carried another
\* subject and other attendees, deleted the old attendees, inserted one new
\* one, then failed
C2_Witness ==
    \E c \in Calls :
        /\ Rejected(c) /\ ~NewEvent(c)
        /\ pre[c].attendees # <<>>
        /\ \A r \in pre[c].parent : r.subject # EventOf(c).subject
        /\ ~SameMultiset(pre[c].attendees, SuppliedRows(EventOf(c)))
        /\ attIdx[c] = 2
        /\ tx[c].fnErr = "attendee insert failed"

\* C3: after a successful upsertEvent whose event carries a non-empty
\* attendee list, the attendee rows stored for the event are the supplied
\* attendees (email, name and response of each, an absent or empty field
\* stored as NULL), with the same multiplicities.
C3_AttendeesReplaced ==
    \A c \in Calls :
        (Resolved(c) /\ HasAttendees(EventOf(c)))
            => SameMultiset(AttendeesOf(Committed, EventOf(c).id),
                            SuppliedRows(EventOf(c)))

\* C3 witness: the event was stored with attendees that differ from the
\* supplied ones, and the call has resolved
C3_Witness ==
    \E c \in Calls :
        /\ Resolved(c) /\ HasAttendees(EventOf(c))
        /\ pre[c].attendees # <<>>
        /\ ~SameMultiset(pre[c].attendees, SuppliedRows(EventOf(c)))

\* C4: after a successful upsertEvent whose event carries an empty attendee
\* list, no attendee row is stored for the event.
C4_EmptyListLeavesNoAttendees ==
    \A c \in Calls :
        (Resolved(c) /\ EventOf(c).attendees.defined
                     /\ EventOf(c).attendees.list = <<>>)
            => AttendeesOf(Committed, EventOf(c).id) = <<>>

\* the failures a call can suffer from its own statements
OwnFailures ==
    {"connect failed", "BEGIN failed", "parent insert failed",
     "attendee delete failed", "attendee insert failed", "COMMIT failed",
     "ROLLBACK failed"}

\* C5: of two upsertEvent calls for different events that run interleaved,
\* each rolls back its own writes only, and a call none of whose own
\* statements failed succeeds whatever happens to the other call.
C5_CallsIndependent ==
    \A c \in Calls :
        /\ Rejected(c) =>
              /\ tx[c].err \in OwnFailures
              /\ StoredEvent(Committed, EventOf(c).id) = pre[c]
        /\ Resolved(c) =>
              /\ \E r \in calendar_events :
                    r.id = EventOf(c).id /\ r.subject = EventOf(c).subject
              /\ HasAttendees(EventOf(c)) =>
                    SameMultiset(AttendeesOf(Committed, EventOf(c).id),
                                 SuppliedRows(EventOf(c)))

\* the transaction of a call that has settled ended as follows
CommitIssued(c) == tx[c].commit # "none"
RollbackIssued(c) == tx[c].rollback # "none"

\* C6 as stated: transaction(fn) commits exactly when fn resolves and rolls
\* back exactly when fn throws, never both, and after a rollback the call
\* rejects with the error fn threw.
C6_CommitIffResolvesRollbackIffThrows ==
    \A c \in Calls :
        Done(c) =>
            /\ (tx[c].commit = "ok") <=> (tx[c].fn = "resolved")
            /\ RollbackIssued(c) <=> (tx[c].fn = "threw")
            /\ ~(tx[c].commit = "ok" /\ RollbackIssued(c))
            /\ RollbackIssued(c) => tx[c].err = tx[c].fnErr

\* C6 amended: COMMIT is issued exactly when fn resolves and the call
\* resolves exactly when that COMMIT succeeds; ROLLBACK is issued exactly
\* when something in the try block threw (BEGIN of PostgreSQL, fn, or
\* COMMIT); no transaction is both committed and rolled back; after a
\* ROLLBACK that succeeded the call rejects with the error that was caught,
\* which is fn's error when fn threw, and after a ROLLBACK that threw it
\* rejects with the error of the ROLLBACK.
C6_TransactionOutcome ==
    \A c \in Calls :
        Done(c) =>
            /\ CommitIssued(c) <=> (tx[c].fn = "resolved")
            /\ (tx[c].outcome = "resolved") <=> (tx[c].commit = "ok")
            /\ RollbackIssued(c) <=>
                  \/ tx[c].fn = "threw"
                  \/ tx[c].commit = "failed"
                  \/ tx[c].caught = "BEGIN failed"
            /\ ~(tx[c].commit = "ok" /\ RollbackIssued(c))
            /\ tx[c].rollback = "ok" => tx[c].err = tx[c].caught
            /\ (tx[c].rollback = "ok" /\ tx[c].fn = "threw") => tx[c].err = tx[c].fnErr
            /\ tx[c].rollback = "failed" => tx[c].err = "ROLLBACK failed"

\* C6 witness: fn resolved, COMMIT threw, ROLLBACK ran and the call rejected
\* with the error of the COMMIT
C6_Witness ==
    \E c \in Calls :
        /\ Done(c)
        /\ tx[c].fn = "resolved"
        /\ tx[c].commit = "failed"
        /\ tx[c].rollback = "ok"
        /\ tx[c].err = "COMMIT failed"

\* what one successful upsertEvent(ed, userId) leaves stored for a new event
AfterOneUpsert(ed, userId) ==
    [parent |-> {[id |-> ed.id, user_id |-> userId, subject |-> ed.subject]},
     attendees |-> SuppliedRows(ed)]

\* the event was stored as one upsert of the call's arguments leaves it
StoredAsUpserted(c) ==
    /\ pre[c].parent = AfterOneUpsert(EventOf(c), arg[c].userId).parent
    /\ SameMultiset(pre[c].attendees,
                    AfterOneUpsert(EventOf(c), arg[c].userId).attendees)

\* C40: a successful upsertEvent of an event with a non-empty attendee
\* list, made when the event is stored as a successful upsert of the same
\* event leaves it, leaves the same single parent row and the same attendee
\* multiset: no second parent row, no attendee twice.
C40_UpsertIdempotent ==
    \A c \in Calls :
        (Resolved(c) /\ HasAttendees(EventOf(c)) /\ StoredAsUpserted(c))
            => /\ StoredEvent(Committed, EventOf(c).id).parent = pre[c].parent
               /\ Cardinality({ r \in calendar_events : r.id = EventOf(c).id }) = 1
               /\ SameMultiset(AttendeesOf(Committed, EventOf(c).id),
                               pre[c].attendees)

\* the second of two successful upserts of one event with two attendees
C40_Witness ==
    /\ ncalls = 2
    /\ tasks = {"c1"}
    /\ Resolved("c1") /\ StoredAsUpserted("c1")
    /\ Len(EventOf("c1").attendees.list) = 2
    /\ Len(event_attendees) = 2

----------------------------------------------------------------------------
(* Properties of the dispatcher (SpecConc) *)

\* the task invocations that have started and not yet settled
InFlight == { i \in 1..Len(items) : invoked[i] > 0 /\ settled[i].state = Pending }

\* C7: the value runConcurrent resolves to has one record per input item,
\* and the record at index i carries items[i] and the outcome of the task
\* run for items[i], in whatever order the tasks settled.
C7_OneRecordPerItemInInputOrder ==
    rcState = "resolved" =>
        /\ Len(results) = Len(items)
        /\ \A i \in 1..Len(items) :
              /\ results[i].item = items[i]
              /\ results[i].success <=> (settled[i].state = "returned")
              /\ results[i].success => results[i].data = settled[i].value
              /\ ~results[i].success => results[i].error = settled[i].value

\* C7 witness: three items resolved although the third settled before the
\* second, with results that tell the items apart
C7_Witness ==
    /\ rcState = "resolved"
    /\ Len(items) = 3
    /\ doneOrder = <<1, 3, 2>>
    /\ settled[2].value # settled[3].value

\* C8: runConcurrent never rejects; when it has resolved, every item's task
\* was invoked exactly once, an item whose task threw has the record
\* {success: false, error: message, item} and every other item has
\* {success: true, data: its own result, item}.
C8_FailuresIsolated ==
    /\ rcState # "rejected"
    /\ rcState = "resolved" =>
          \A i \in 1..Len(items) :
              /\ invoked[i] = 1
              /\ settled[i].state = "threw" =>
                    results[i] = [success |-> FALSE, data |-> Undefined,
                                  error |-> settled[i].value, item |-> items[i]]
              /\ settled[i].state # "threw" =>
                    results[i] = [success |-> TRUE, data |-> settled[i].value,
                                  error |-> Undefined, item |-> items[i]]

\* C8 witness: of three items the second threw and the others returned
C8_Witness ==
    /\ rcState = "resolved"
    /\ Len(items) = 3
    /\ settled[1].state = "returned"
    /\ settled[2].state = "threw"
    /\ settled[3].state = "returned"

\* C9: at most concurrentRequests task invocations are in flight, and the
\* item at index i has started only if at least i - concurrentRequests
\* invocations have settled.
C9_InFlightBounded ==
    /\ Cardinality(InFlight) <= concurrentRequests
    /\ \A i \in 1..Len(items) :
          invoked[i] > 0 => completed >= i - concurrentRequests

\* C9 witness: the limit is reached, an item beyond the limit is in flight
\* and another one is still waiting
C9_Witness ==
    /\ Cardinality(InFlight) = concurrentRequests
    /\ \E i \in InFlight : i > concurrentRequests
    /\ queue # <<>>

\* the items whose task has settled
Settled == { i \in 1..Len(items) : settled[i].state # Pending }

\* C25: onProgress has been called once for every item whose task has
\* settled, whether it returned or threw, and for no other; the k-th call
\* is onProgress(k, items.length) and is made for the k-th task to settle,
\* so completedCount runs through 1, 2, ... and ends at items.length.
C25_ProgressOncePerItem ==
    /\ Len(progress) = Cardinality(Settled)
    /\ Len(progress) = Len(doneOrder)
    /\ \A k \in 1..Len(progress) :
          /\ progress[k] = <<k, Len(items)>>
          /\ doneOrder[k] \in Settled
          /\ \A j \in 1..Len(progress) : doneOrder[j] = doneOrder[k] => j = k
    /\ Len(progress) <= Len(items)
    /\ rcState = "resolved" => Len(progress) = Len(items)

\* three items, the second threw: three calls counting 1, 2, 3 of 3
C25_Witness ==
    /\ rcState = "resolved"
    /\ Len(items) = 3
    /\ settled[2].state = "threw"
    /\ progress = <<<<1, 3>>, <<2, 3>>, <<3, 3>>>>

\* C26: when runConcurrent has resolved no item waits in the queue and no
\* task is in flight: the task of every item was invoked and has settled,
\* and its promise is resolved.
C26_ResolvesAfterAllSettled ==
    rcState = "resolved"
    => /\ queue = <<>>
       /\ active = {}
       /\ InFlight = {}
       /\ \A i \in 1..Len(items) :
             /\ invoked[i] > 0
             /\ settled[i].state \in {"returned", "threw"}
             /\ outcome[i].kind = "fulfilled"

\* more items than slots: the last of three items was queued, and the call
\* resolved after it had run
C26_Witness ==
    /\ rcState = "resolved"
    /\ Len(items) = 3
    /\ concurrentRequests < 3
    /\ doneOrder[3] = 3

\* C27: if every task invocation settles, every item of a runConcurrent
\* call is started, those queued beyond the limit included, and the call
\* resolves, whichever tasks fail.
C27_EveryItemStartsAndCallResolves ==
    /\ \A i \in Indices :
          (rcState = "running" /\ i <= Len(items)) ~> (invoked[i] > 0)
    /\ (rcState = "running") ~> (rcState = "resolved")

\* every task of a call of three items threw, the limit being lower, and
\* the call resolved
C27_Witness ==
    /\ rcState = "resolved"
    /\ Len(items) = 3
    /\ concurrentRequests < 3
    /\ \A i \in 1..3 : settled[i].state = "threw" /\ invoked[i] = 1

----------------------------------------------------------------------------
(* Properties of the paginated fetcher (SpecPage) *)

RECURSIVE CursorChain(_)
\* the endpoints reached from e by following the cursors of the remote
CursorChain(e) ==
    IF remote[e].nextLink = NoLink THEN <<e>>
    ELSE <<e>> \o CursorChain(remote[e].nextLink)

RECURSIVE ItemsOf(_)
\* the items of the pages at the given endpoints, page after page
ItemsOf(es) ==
    IF es = <<>> THEN <<>> ELSE remote[Head(es)].value \o ItemsOf(Tail(es))

\* C10: when fetchAllWithPagination resolves it has requested the given
\* path and then the cursor of each response in turn, up to the first
\* response without a cursor, and it returns the items of these pages in
\* page order, each as often as the pages hold it.
C10_AllPagesInOrder ==
    fetched.state = "resolved" =>
        /\ requested = CursorChain(startEndpoint)
        /\ fetched.data = ItemsOf(requested)

\* C10 witness: three pages of two items each were fetched, the second and
\* the third page holding the same items, and six items returned
C10_Witness ==
    /\ fetched.state = "resolved"
    /\ Len(requested) = 3
    /\ \A e \in Range(requested) : Len(remote[e].value) = 2
    /\ remote[requested[1]].value # remote[requested[2]].value
    /\ remote[requested[2]].value = remote[requested[3]].value
    /\ Len(fetched.data) = 6

\* C24: when the request for page k fails, the call rejects with the error
\* that get threw for that request, not with another one; the failed
\* request is the last one made, every earlier request was answered with a
\* page, and none of the items of these pages is handed to the caller.
C24_PageFailureRejects ==
    fetched.state = "rejected"
    => LET k == Len(requested)
       IN /\ fetched.error = HandleError(fetched.cause)
          /\ fetched.cause.message = k
          /\ fetched.data = <<>>
          /\ fpc = "done"
          /\ Len(responses) = k
          /\ ~responses[k].ok
          /\ \A i \in 1..(k - 1) : responses[i].ok

\* the third request failed after two pages with items had been fetched
C24_Witness ==
    /\ fetched.state = "rejected"
    /\ Len(requested) = 3
    /\ Len(allData) >= 2
    /\ remote[requested[1]].value # <<>>
    /\ remote[requested[2]].value # <<>>
    /\ fetched.error.statusCode = 500

\* C28: at most one page request is without its response at any time, and
\* a page is requested only when every earlier request has been answered;
\* the request after a page goes to the cursor read from that page.
C28_OneRequestAtATime ==
    [][/\ Len(requested') - Len(responses') \in {0, 1}
       /\ Len(requested') > Len(requested)
          => /\ Len(responses) = Len(requested)
             /\ Len(requested) > 0
                => /\ responses[Len(responses)].ok
                   /\ requested'[Len(requested')]
                        = responses[Len(responses)].nextLink]_vars

\* the third page is requested, two responses have arrived
C28_Witness ==
    /\ fpc = "awaiting"
    /\ Len(requested) = 3
    /\ Len(responses) = 2

\* the responses received so far that carry a cursor
WithCursor == { i \in 1..Len(responses) : responses[i].nextLink # NoLink }

\* C29: one delay of requestDelay is waited for every response that carries
\* a cursor, before the next page is requested, and none after a response
\* without cursor: a fetch that resolves after k pages has waited k - 1
\* times.
C29_DelayBetweenPages ==
    /\ delays = Cardinality(WithCursor) - (IF fpc = "delay" THEN 1 ELSE 0)
    /\ Len(requested) <= delays + 1
    /\ fetched.state = "resolved"
       => /\ delays = Len(requested) - 1
          /\ responses[Len(responses)].nextLink = NoLink

\* three pages fetched, two delays
C29_Witness ==
    /\ fetched.state = "resolved"
    /\ Len(requested) = 3
    /\ delays = 2

----------------------------------------------------------------------------
(* Properties of the retry policy (SpecRetry) *)

\* the i-th failed attempt was answered with status 429
RateLimited(i) == thrown[i].hasResponse /\ thrown[i].status = 429

\* the i-th failed attempt was answered with one of the transient statuses
TransientStatus(i) ==
    thrown[i].hasResponse /\ thrown[i].status \in {408, 500, 502, 503, 504}

\* the call resolved with what the last invocation returned, after one
\* delay per failed attempt
ResolvedAfterRetries ==
    /\ rresult.value = <<"data">>
    /\ rresult.error = NoAppError
    /\ attempts = Len(thrown) + 1
    /\ Len(waits) = Len(thrown)

\* C13: a 429 that carries a server wait of d seconds, caught at a retry
\* count below maxRetries, is followed by a delay of d seconds and by a
\* further invocation; when an invocation succeeds its result is returned
\* and no error surfaces.
C13_ServerWaitHonoured ==
    /\ \A i \in 1..Len(thrown) :
          (RateLimited(i) /\ thrown[i].header.kind = "seconds" /\ i - 1 < maxRetries)
          => /\ Len(waits) >= i
             /\ waits[i] = thrown[i].header.seconds * 1000
             /\ (rpc # "waiting" \/ i < Len(thrown)) => attempts >= i + 1
    /\ rresult.state = "resolved" => ResolvedAfterRetries

\* C14: a 429 without a server wait, caught at retry count k, is followed
\* by a delay of 2^k seconds.
C14_BackoffWithoutServerWait ==
    \A i \in 1..Len(waits) :
        (RateLimited(i) /\ thrown[i].header.kind = "missing")
        => waits[i] = 2^(i - 1) * 1000

\* C15: a failure with a transient status caught at retry count k is
\* retried exactly when k < maxRetries, after a delay of exactly 2^k
\* seconds; at k = maxRetries the call rejects with that failure's error.
C15_TransientBackoff ==
    /\ Len(waits) <= maxRetries
    /\ \A i \in 1..Len(thrown) :
          TransientStatus(i)
          => IF i - 1 < maxRetries
             THEN /\ Len(waits) >= i
                  /\ waits[i] = 2^(i - 1) * 1000
                  /\ (i = Len(thrown) /\ rpc # "waiting") => attempts = i + 1
             ELSE /\ Len(waits) < i
                  /\ rpc = "done"
                  /\ rresult.state = "rejected"
                  /\ rresult.error.statusCode = thrown[i].status
                  /\ rresult.error.message = thrown[i].message

\* C15 witness: four transient failures in a row: delays of 1 s, 2 s and
\* 4 s, then the fourth failure surfaces
C15_Witness ==
    /\ Len(thrown) = maxRetries + 1
    /\ \A i \in 1..Len(thrown) : TransientStatus(i)
    /\ waits = <<1000, 2000, 4000>>
    /\ attempts = 4
    /\ rresult.state = "rejected"

\* C16: a failure whose status is neither 429 nor transient ends the call:
\* no delay follows it, the operation is not invoked again, and the call
\* rejects with that error; as the first failure it leaves the operation
\* invoked exactly once.
C16_TerminalErrorNotRetried ==
    \A i \in 1..Len(thrown) :
        (thrown[i].hasResponse
           /\ thrown[i].status \notin {429, 408, 500, 502, 503, 504})
        => /\ i = Len(thrown)
           /\ attempts = i
           /\ Len(waits) = i - 1
           /\ rpc = "done"
           /\ rresult.state = "rejected"
           /\ rresult.error.statusCode = thrown[i].status
           /\ rresult.error.message = thrown[i].message

\* C16 witness: the first invocation failed with 404 and the call rejected
C16_Witness ==
    /\ Len(thrown) = 1
    /\ thrown[1].hasResponse
    /\ thrown[1].status = 404
    /\ attempts = 1
    /\ waits = <<>>
    /\ rresult.state = "rejected"
    /\ rresult.error.statusCode = 404

\* C30: one fetchWithRetry call invokes the wrapped operation at most
\* maxRetries + 1 times, whatever fails; every retry, after a 429 or after
\* a transient failure, is counted by the one retryCount, so there are at
\* most maxRetries retries in total and the call gives up at the failure
\* caught with retryCount = maxRetries.
C30_AttemptsBounded ==
    /\ attempts <= maxRetries + 1
    /\ Len(waits) <= maxRetries
    /\ Len(thrown) <= maxRetries + 1
    /\ rpc # "idle" => retryCount = attempts - 1
    /\ Len(waits) = Len(thrown) - (IF rresult.state = "rejected" THEN 1 ELSE 0)
    /\ (Len(thrown) = maxRetries + 1) => rresult.state = "rejected"

\* rate-limited and transient failures mixed, retried maxRetries times and
\* then given up
C30_Witness ==
    /\ rresult.state = "rejected"
    /\ attempts = maxRetries + 1
    /\ Len(waits) = maxRetries
    /\ \E i, j \in 1..maxRetries : RateLimited(i) /\ TransientStatus(j)
    /\ RateLimited(maxRetries + 1) \/ TransientStatus(maxRetries + 1)

\* the error handleError makes of the i-th failed attempt is retried while
\* retries are left
Retryable(i) ==
    \/ HandleError(thrown[i]).statusCode = 429
    \/ HandleError(thrown[i]).statusCode \in {408, 500, 502, 503, 504}

\* C31: when every attempt failed with a retryable status and the call has
\* rejected, there were exactly maxRetries retries, and the error of the
\* rejection is the error of the last attempt as handleError made it:
\* its status, its message and its retryAfter.
C31_LastErrorPropagates ==
    (rresult.state = "rejected" /\ \A i \in 1..Len(thrown) : Retryable(i))
    => /\ Len(waits) = maxRetries
       /\ attempts = maxRetries + 1
       /\ Len(thrown) = maxRetries + 1
       /\ rresult.error = HandleError(thrown[maxRetries + 1])
       /\ rresult.error.message = maxRetries + 1

\* the first attempt was rate limited, the last failed with 503
C31_Witness ==
    /\ rresult.state = "rejected"
    /\ Len(thrown) = maxRetries + 1
    /\ RateLimited(1)
    /\ thrown[maxRetries + 1].hasResponse
    /\ thrown[maxRetries + 1].status = 503
    /\ rresult.error.statusCode = 503

\* C39: a request that failed without a response surfaces from handleError
\* with status 500; caught at retry count k < maxRetries it is retried
\* after 2^k seconds, and caught at k = maxRetries it ends the call with
\* that error.
C39_NoResponseIsTransient ==
    \A i \in 1..Len(thrown) :
        ~thrown[i].hasResponse
        => /\ HandleError(thrown[i]).statusCode = 500
           /\ i <= maxRetries
              => /\ Len(waits) >= i
                 /\ waits[i] = Pow2(i - 1) * 1000
           /\ i = maxRetries + 1
              => /\ Len(waits) = maxRetries
                 /\ rresult.state = "rejected"
                 /\ rresult.error.statusCode = 500
                 /\ rresult.error.message = i

\* no attempt got a response: three retries after 1 s, 2 s and 4 s, then
\* the call rejected
C39_Witness ==
    /\ Len(thrown) = maxRetries + 1
    /\ \A i \in 1..Len(thrown) : ~thrown[i].hasResponse
    /\ waits = <<1000, 2000, 4000>>
    /\ rresult.state = "rejected"

----------------------------------------------------------------------------
(* Properties of the event scan over the paginated fetcher (SpecScan) *)

\* the pages at the endpoints requested so far, in request order
PagesRequested == [i \in 1..Len(requested) |-> remote[requested[i]].value]

\* C11: a fetch that was given an onPage callback has handed every page it
\* fetched to the callback, in page order, by the time it asks for the next
\* page or resolves; a scan that resolves without a failed attempt has seen
\* every item of the collection.
C11_OnPagePerPage ==
    (options.onPage /\ thrown = <<>>)
    => /\ (fpc \in {"request", "delay"} \/ fetched.state = "resolved")
          => onPageCalls = PagesRequested
       /\ scanResult.state = "resolved"
          => scanResult.eventsProcessed + scanResult.eventsFailed
               = Len(ItemsOf(CursorChain(scanEndpoint)))

\* C12: when the token source is a provider function, the provider has been
\* invoked once per GET request sent, and every request carried the token the
\* provider resolved to at that moment.
C12_ProviderPerRequest ==
    accessToken.kind = "function"
    => /\ providerCalls = Len(getLog)
       /\ \A i \in 1..Len(getLog) :
             getLog[i].authorization = getLog[i].providerToken

\* the attempts of the scan's fetchWithRetry call that failed on a page
\* after the first: the request that failed was not for scanEndpoint
FailedAfterFirstPage ==
    { i \in 1..Len(thrown) : getLog[thrown[i].message].endpoint # scanEndpoint }

----------------------------------------------------------------------------
(* Properties of the file crawl and of the scans' error handling (SpecCrawl) *)

\* the files of the drive; every item is reachable from the root
Leaves == { n \in Nodes : tree[n].kind = "file" }
Containers == { n \in Nodes : tree[n].kind = "folder" }

\* every listing made so far succeeded
AllListingsOk == \A i \in 1..Len(listed) : listed[i].status = 0

\* the upsertFile calls made for file n, and those that threw
UpsertsOf(n) == { i \in 1..Len(upsertLog) : upsertLog[i].file = n }
PersistThrew == { i \in 1..Len(upsertLog) : ~upsertLog[i].ok }

\* the number of files the crawl reports as processed: the length of the
\* list it returns (scanAllUserFiles adds userFiles.length to totalFiles)
FilesProcessed == Len(crawlResult.files)

\* C17: when every listing and every persist succeeded, scanUserFiles has
\* persisted every file of the drive, at any depth, exactly once and
\* nothing else, and reports as many processed files as the drive has.
C17_EveryLeafPersistedOnce ==
    (cpc = "done" /\ AllListingsOk /\ PersistThrew = {})
    => /\ crawlResult.state = "resolved"
       /\ \A n \in Leaves : Cardinality(UpsertsOf(n)) = 1
       /\ \A i \in 1..Len(upsertLog) : upsertLog[i].file \in Leaves
       /\ FilesProcessed = Cardinality(Leaves)

\* C17 witness: the root holds file 1 and folder 2, folder 2 holds file 3;
\* both files were persisted and two files are reported
C17_Witness ==
    /\ tree[1] = [kind |-> "file", parent |-> Root]
    /\ tree[2] = [kind |-> "folder", parent |-> Root]
    /\ tree[3] = [kind |-> "file", parent |-> 2]
    /\ tree[4].kind = "other"
    /\ cpc = "done"
    /\ AllListingsOk
    /\ upsertLog = <<[file |-> 1, ok |-> TRUE], [file |-> 3, ok |-> TRUE]>>
    /\ FilesProcessed = 2

\* C18: when every listing succeeded, a persist that threw did not stop the
\* crawl (every file was handed to upsertFile once, every folder was
\* listed), and the crawl reports as processed the files whose persist did
\* not throw: processed + failed = number of files, failed = number of
\* persists that threw.
C18_FailedLeafCounted ==
    (cpc = "done" /\ AllListingsOk)
    => /\ \A n \in Leaves : Cardinality(UpsertsOf(n)) = 1
       /\ \A n \in Containers : \E i \in 1..Len(listed) : listed[i].folder = n
       /\ FilesProcessed + Cardinality(PersistThrew) = Cardinality(Leaves)

\* C19: when the listing of the root failed with 404, scanUserFiles has
\* resolved with the empty list and persisted nothing, and the dispatcher's
\* record for the owner is a success.
C19_RootNotFoundIsEmpty ==
    (cpc = "done" /\ listed = <<[folder |-> Root, status |-> 404]>>)
    => /\ crawlResult.state = "resolved"
       /\ crawlResult.files = <<>>
       /\ upsertLog = <<>>
       /\ Wrapper("A", crawlResult.state = "resolved", crawlResult.files).success

\* C19 witness: the listing of the root of a drive failed with 404 and the
\* crawl resolved
C19_Witness ==
    /\ cpc = "done"
    /\ Leaves # {}
    /\ listed = <<[folder |-> Root, status |-> 404]>>
    /\ crawlResult.state = "resolved"

\* the listing that ended the crawl: the last one, when it failed
LastListing == listed[Len(listed)]

\* C21: a crawl ended by a failed listing, other than a 404 for the root,
\* rejects with the error of that listing; a 404 for a nested folder is
\* not turned into the empty result.
C21_OtherListingFailuresPropagate ==
    (cpc = "done" /\ listed # <<>> /\ LastListing.status # 0
       /\ ~(LastListing.folder = Root /\ LastListing.status = 404))
    => /\ crawlResult.state = "rejected"
       /\ crawlResult.error.statusCode = LastListing.status

RECURSIVE Within(_, _)
\* item n lies in folder g, at any depth
Within(n, g) ==
    IF tree[n].parent = g THEN TRUE
    ELSE IF tree[n].parent = Root THEN FALSE
    ELSE Within(tree[n].parent, g)

\* C32: once the loop over a listing has handled a sibling that follows a
\* container, every file in the container's subtree has been handed to
\* upsertFile.
C32_SubtreeBeforeLaterSiblings ==
    \A d \in 1..Len(stack) :
        \A j \in 1..Len(stack[d].items) :
            (stack[d].items[j].folder /\ stack[d].idx > j + 1)
            => \A n \in Leaves :
                   Within(n, stack[d].items[j].id) => UpsertsOf(n) # {}

\* the files the scanFolderRecursively invocations in progress have found
Discovered ==
    UNION { { stack[d].allFiles[k].id : k \in 1..Len(stack[d].allFiles) } :
            d \in 1..Len(stack) }

\* file n lies in a folder whose listing succeeded, ahead of every folder
\* of that listing
FoundBeforeAnyDescent(n) ==
    /\ \E i \in 1..Len(listed) :
          listed[i].folder = tree[n].parent /\ listed[i].status = 0
    /\ \A m \in Containers : tree[m].parent = tree[n].parent => n < m

\* C33: when the crawl asks for the listing of a folder, every file found
\* so far has been handed to upsertFile; and when a listing failed and the
\* crawl rejected, the files found before the failure are in the store.
C33_LeafPersistedBeforeNextListing ==
    /\ cpc \in {"list", "listing"}
       => \A n \in Discovered : UpsertsOf(n) # {}
    /\ (cpc = "done" /\ crawlResult.state = "rejected")
       => \A n \in Leaves : FoundBeforeAnyDescent(n) => UpsertsOf(n) # {}

\* the listings made of folder f (Root or an item of the drive)
ListingsOf(f) == { i \in 1..Len(listed) : listed[i].folder = f }

\* C34: on a finite drive whose listings have finite cursor chains, with
\* every request settling, a scanUserFiles call that was made returns or
\* throws; the pagination of a listing requests the cursor chain of the
\* folder and stops at the first response without a cursor; no container
\* is listed twice, and when no listing failed every container has been
\* listed once by the time the call returns.
C34_CrawlTerminates ==
    /\ (cpc # "idle") ~> (cpc = "done")
    /\ [](startEndpoint # NoLink
            => /\ Len(requested) <= Len(CursorChain(startEndpoint))
               /\ requested = SubSeq(CursorChain(startEndpoint), 1, Len(requested))
               /\ fetched.state = "resolved"
                  => requested = CursorChain(startEndpoint))
    /\ [](\A f \in {Root} \cup Nodes : Cardinality(ListingsOf(f)) <= 1)
    /\ []((cpc = "done" /\ AllListingsOk)
            => /\ crawlResult.state = "resolved"
               /\ \A f \in {Root} \cup Containers :
                     Cardinality(ListingsOf(f)) = 1)

\* the root holds folders 1 and 2 and file 3, folder 1 holds file 4: the
\* listing of the root took two pages, the three containers were listed
\* and the call has returned
C34_Witness ==
    /\ tree[1] = [kind |-> "folder", parent |-> Root]
    /\ tree[2] = [kind |-> "folder", parent |-> Root]
    /\ tree[3] = [kind |-> "file", parent |-> Root]
    /\ tree[4] = [kind |-> "file", parent |-> 1]
    /\ remote = ListingRemote
    /\ Len(CursorChain(FolderEndpoint(Root))) = 2
    /\ cpc = "done"
    /\ crawlResult.state = "resolved"
    /\ [i \in 1..Len(listed) |-> listed[i].folder] = <<Root, 1, 2>>

\* the fetch of the event scan was rejected with this status
EventFetchFailed(status) ==
    /\ spc = "done"
    /\ rresult.state = "rejected"
    /\ rresult.error.statusCode = status

EmptySummary ==
    /\ scanResult.state = "resolved"
    /\ scanResult.eventsProcessed = 0
    /\ scanResult.eventsFailed = 0

\* C20 as stated: after a 403 for the root listing both scanUserFiles and
\* scanUserEvents have resolved with the empty result.
C20_ForbiddenRootIsEmpty ==
    /\ (cpc = "done" /\ listed = <<[folder |-> Root, status |-> 403]>>)
       => (crawlResult.state = "resolved" /\ crawlResult.files = <<>>)
    /\ EventFetchFailed(403) => EmptySummary

\* C20 as amended: scanUserEvents resolves with the empty result after a
\* 403 as after a 404; scanUserFiles does so after a 404 only and rejects
\* with the error after a 403, having persisted nothing.
C20_ForbiddenRootEventScanOnly ==
    /\ (EventFetchFailed(403) \/ EventFetchFailed(404)) => EmptySummary
    /\ (cpc = "done" /\ listed = <<[folder |-> Root, status |-> 403]>>)
       => /\ crawlResult.state = "rejected"
          /\ crawlResult.error.statusCode = 403
          /\ upsertLog = <<>>
    /\ (cpc = "done" /\ listed = <<[folder |-> Root, status |-> 404]>>)
       => (crawlResult.state = "resolved" /\ crawlResult.files = <<>>)

\* C20 witness: the fetch of an event scan failed with 403 and the scan
\* resolved with the empty summary
C20_Witness ==
    /\ EventFetchFailed(403)
    /\ EmptySummary

----------------------------------------------------------------------------
(* Properties of the scans of all users (SpecAll) *)

\* the users whose scan failed
FailedScans == { i \in 1..Len(users) : returning[i].state = "threw" }

\* C22: a scan of all users over a non-empty user list resolves, whichever
\* of the per-user scans fail; its result holds one outcome record per
\* user, in the order of the users, marked failed exactly for the users
\* whose scan failed, and successfulUsers + failedUsers = totalUsers.
C22_ResolvesWithOneRecordPerUser ==
    (apc = "done" /\ users # <<>>)
    => /\ allResult.state = "resolved"
       /\ allResult.totalUsers = Len(users)
       /\ Len(allResult.results) = Len(users)
       /\ \A i \in 1..Len(users) :
             /\ allResult.results[i].item = users[i]
             /\ allResult.results[i].success <=> i \notin FailedScans
       /\ allResult.failedUsers = Cardinality(FailedScans)
       /\ allResult.successfulUsers + allResult.failedUsers
            = allResult.totalUsers

\* three users, the scans of the first and the third failed
C22_Witness ==
    /\ apc = "done"
    /\ Len(users) = 3
    /\ FailedScans = {1, 3}
    /\ allResult.state = "resolved"
    /\ allResult.successfulUsers = 1

RECURSIVE SumProcessed(_, _)
\* the per-user counts of the records with success = true, added up
SumProcessed(kind, rs) ==
    IF rs = <<>> THEN 0
    ELSE (IF Head(rs).success THEN Processed(kind, Head(rs).data) ELSE 0)
         + SumProcessed(kind, Tail(rs))

RECURSIVE SumFailed(_, _)
SumFailed(kind, rs) ==
    IF rs = <<>> THEN 0
    ELSE (IF Head(rs).success THEN Failed(kind, Head(rs).data) ELSE 0)
         + SumFailed(kind, Tail(rs))

\* C23: when a scan of all users resolves, its totals are the sums of the
\* per-user counts over the outcome records with success = true, in
\* whatever order the per-user scans settled and their tasks completed.
C23_TotalsAreSumsOverSuccesses ==
    (apc = "done" /\ allResult.state = "resolved")
    => /\ allResult.total = SumProcessed(scanKind, allResult.results)
       /\ allResult.failedEvents = SumFailed(scanKind, allResult.results)

\* an event scan of three users: the task of the second user completed
\* before that of the first, the scan of the third failed, and the others
\* counted one stored and one failed event
C23_Witness ==
    /\ apc = "done"
    /\ scanKind = "events"
    /\ Len(users) = 3
    /\ FailedScans = {3}
    /\ doneOrder = <<2, 1, 3>>
    /\ allResult.total + allResult.failedEvents = 2
    /\ allResult.failedEvents = 1

----------------------------------------------------------------------------
(* Properties of the tokens of a session (SpecAuth) *)

\* the refresh requests that have not settled
PendingRefreshes == { r \in 1..Len(refreshes) : refreshes[r].state = "pending" }

\* C35: at most one refreshAccessToken request of the session is in flight;
\* a getValidAccessToken call made while a refresh is in flight and the
\* stored token is expired starts no request and returns the promise of
\* that refresh, so that it resolves to the token that refresh obtains.
C35_OneRefreshInFlight ==
    /\ [](Cardinality(PendingRefreshes) <= 1)
    /\ [][(/\ Len(calls') = Len(calls) + 1
           /\ PendingRefreshes # {}
           /\ tokenStore.present
           /\ tokenStore.expired
           /\ tokenStore.refresh_token)
          => /\ refreshes' = refreshes
             /\ calls'[Len(calls')].kind = "promise"
             /\ calls'[Len(calls')].refresh \in PendingRefreshes]_vars

\* three overlapping calls shared one refresh, which has obtained a token
C35_Witness ==
    /\ Len(calls) = 3
    /\ \A c \in 1..3 : calls[c].kind = "promise" /\ calls[c].refresh = 1
    /\ Len(refreshes) = 1
    /\ refreshes[1].state = "resolved"
    /\ tokenStore.access_token = refreshes[1].token

\* C38: once removeToken was called for the session the token store holds
\* no token for it (no login follows in a session that logout destroyed),
\* also after a refresh that was in flight at the removal has completed.
C38_NoTokenAfterRemoval ==
    removed => ~tokenStore.present

----------------------------------------------------------------------------
(* Properties of overlapping dispatcher calls (SpecLimit) *)

RECURSIVE RunningTotal(_)
\* the task invocations in flight, over every limiter that was made
RunningTotal(ls) ==
    IF ls = <<>> THEN 0 ELSE Head(ls).running + RunningTotal(Tail(ls))

\* C37: over all runConcurrent calls in progress on the singleton, the
\* number of task invocations in flight never exceeds concurrentRequests,
\* also when setConcurrency is called while tasks are running.
C37_LimitAcrossCalls ==
    RunningTotal(limiters) <= concurrentRequests

====
